---- MODULE Spec2Model ----
(***************************************************************************)
(* A model of the sdrive hub: the token verifier, the revocation and       *)
(* blacklist caches, the per-endpoint mutex scope, the request handlers    *)
(* (store, delete, list-files, revoke-all, perform-files) and the Google   *)
(* Cloud driver they call.                                                 *)
(*                                                                         *)
(* Strings the code takes apart (paths, scope domains) are sequences of    *)
(* atoms; "/" is an atom of its own, so split('/'), startsWith and         *)
(* includes are computed on the sequence, not assumed.                     *)
(***************************************************************************)
EXTENDS Integers, Sequences, FiniteSets, TLC

VARIABLES
    objects,      \* the bucket: key <<address, path>> -> [body, gen]
    genCtr,       \* the store's generation counter
    revocation,   \* datastore REVOCATION kind: address -> timestamp (0: no record)
    blacklist,    \* datastore BLACKLIST kind: address -> type
    atCache,      \* AuthTimestampCache.cache: address -> timestamp, NoEntry when absent
    blCache,      \* BlacklistCache.cache: address -> type, NoEntry when absent
    opened,       \* AsyncMutexScope._opened
    req,          \* the requests in flight and answered: id -> request record
    queue,        \* what addTaskToQueue was called with, in order
    hist,         \* history of the run: facts the properties speak about
    config,       \* the configuration record the server was built with
    authIn,       \* inputs of a bare call of validateAuthorizationHeader
    authOut       \* its outcome

vars == <<objects, genCtr, revocation, blacklist, atCache, blCache,
          opened, req, queue, hist, config, authIn, authOut>>

(***************************************************************************)
(* Bounds of the model.                                                    *)
(***************************************************************************)
MaxReq == 3
MaxTs == 2

\* The configured maximum upload size, in bytes.
maxFileUploadSizeBytes == 2

(***************************************************************************)
(* Values.                                                                 *)
(***************************************************************************)
NoEntry == -1

\* An entity of the REVOCATION kind.  version counts the committed writes of
\* the entity; a date is the arrival number of the request that wrote it (0:
\* written before this process started).
NoEntity == [exists |-> FALSE, timestamp |-> 0, createDate |-> 0, updateDate |-> 0,
             version |-> 0]

StoredEntity(timestamp) ==
    IF timestamp = 0 THEN NoEntity
    ELSE [NoEntity EXCEPT !.exists = TRUE, !.timestamp = timestamp]

Addresses == {"A", "B"}

\* ecPairToAddress(pubkeyHexToECPair(publicKey)): the address of a public key.
ecPairToAddress(publicKey) ==
    CASE publicKey = "kA" -> "A"
      [] publicKey = "kB" -> "B"
      [] publicKey = "kW" -> "W"
      [] OTHER -> "?"

Max(a, b) == IF a >= b THEN a ELSE b

\* String.prototype.startsWith on atom sequences.
StartsWith(s, p) == Len(p) <= Len(s) /\ SubSeq(s, 1, Len(p)) = p

\* String.prototype.includes for one atom.
Includes(s, atom) == \E i \in 1..Len(s) : s[i] = atom

\* The index of the last "/" of a path, 0 when it has none.
LastSlash(p) ==
    IF \E i \in 1..Len(p) : p[i] = "/"
    THEN CHOOSE i \in 1..Len(p) : p[i] = "/" /\ \A j \in (i+1)..Len(p) : p[j] # "/"
    ELSE 0

(***************************************************************************)
(* Tokens.  A token is the decoded payload plus what the cryptography      *)
(* decides about it: sigOk says whether TokenVerifier.verify accepts the   *)
(* signature for the key in iss.  header is the shape of the Authorization *)
(* header that carries it.                                                 *)
(***************************************************************************)
NoAsso ==
    [iss |-> "", child |-> "", exp |-> "none", iatKind |-> "absent", iat |-> 0,
     sigOk |-> FALSE]

GoodAsso(child) ==
    [iss |-> "kW", child |-> child, exp |-> "future", iatKind |-> "num",
     iat |-> MaxTs, sigOk |-> TRUE]

GoodToken(key) ==
    [header |-> "v1", iss |-> key, iatKind |-> "num", iat |-> MaxTs,
     hubUrl |-> "https://hub", scopes |-> <<>>, sigOk |-> TRUE,
     challenge |-> "ok", exp |-> "none", hasAsso |-> FALSE, asso |-> NoAsso]

\* isNumber(val) of a claim whose kind is absent, nan (not a number) or num.
isNumber(kind) == kind = "num"

AuthScopeTypeArray ==
    {"putFile", "putFilePrefix", "deleteFile", "deleteFilePrefix",
     "putFileArchival", "putFileArchivalPrefix"}

MaxScopes == 8

\* validateScopes: TRUE when it returns, FALSE when it throws ValidationError.
validateScopes(scopes) ==
    /\ Len(scopes) <= MaxScopes
    /\ \A i \in 1..Len(scopes) : scopes[i].scope \in AuthScopeTypeArray

AuthOk(assoIss) == [err |-> "", floor |-> 0, assoIss |-> assoIss]
AuthErr(kind, f) == [err |-> kind, floor |-> f, assoIss |-> ""]

\* V1Authentication.checkAssociationToken, in the order of its checks.
checkAssociationToken(asso, bearerAddress, floor) ==
    IF asso.iss = "" \/ asso.child = "" \/ asso.exp = "none"
    THEN AuthErr("ValidationError", 0)
    ELSE IF floor > 0 /\ (~isNumber(asso.iatKind) \/ asso.iat < floor)
    THEN AuthErr("AuthTokenTimestampValidationError", floor)
    ELSE IF ~asso.sigOk \/ asso.exp = "past"
    THEN AuthErr("ValidationError", 0)
    ELSE IF ecPairToAddress(asso.child) # bearerAddress
    THEN AuthErr("ValidationError", 0)
    ELSE AuthOk(ecPairToAddress(asso.iss))

\* The hub-URL check of isAuthenticationValid: a trailing "/" is cut, then the
\* claimed hub must be one of validHubUrls (here https://<serverName> alone).
HubUrlOk(tok, requireCorrectHubUrl) ==
    ~requireCorrectHubUrl
    \/ (tok.hubUrl # ""
        /\ (IF tok.hubUrl = "https://hub/" THEN "https://hub" ELSE tok.hubUrl)
              = "https://hub")

\* A revocation check that lets every token through.
IatCheckSkipped(tok, floor) == TRUE

\* A revocation check that also turns away a token without iat.
IatCheckStrict(tok, floor) ==
    ~(floor > 0) \/ (isNumber(tok.iatKind) /\ tok.iat >= floor)

\* The revocation check of the outer token: skipped when the payload has no
\* iat or no floor is active, else iat must be a number >= the floor.
IatCheck(tok, floor) ==
    ~(tok.iatKind # "absent" /\ floor > 0)
    \/ (isNumber(tok.iatKind) /\ tok.iat >= floor)

\* A verification that never compares the issuer's address with the bucket's.
isAuthenticationValidAnyIssuer(tok, address, floor, requireCorrectHubUrl) ==
    IF tok.iss = ""
    THEN AuthErr("ValidationError", 0)
    ELSE IF ~IatCheck(tok, floor)
    THEN AuthErr("AuthTokenTimestampValidationError", floor)
    ELSE IF ~HubUrlOk(tok, requireCorrectHubUrl) \/ ~validateScopes(tok.scopes)
    THEN AuthErr("ValidationError", 0)
    ELSE IF ~tok.sigOk \/ tok.challenge # "ok" \/ tok.exp = "past"
    THEN AuthErr("ValidationError", 0)
    ELSE IF tok.hasAsso
    THEN checkAssociationToken(tok.asso, address, floor)
    ELSE AuthOk("")

\* V1Authentication.isAuthenticationValid, in the order of its checks.
isAuthenticationValid(tok, address, floor, requireCorrectHubUrl) ==
    IF tok.iss = ""
    THEN AuthErr("ValidationError", 0)
    ELSE IF ~IatCheck(tok, floor)
    THEN AuthErr("AuthTokenTimestampValidationError", floor)
    ELSE IF ecPairToAddress(tok.iss) # address
    THEN AuthErr("ValidationError", 0)
    ELSE IF ~HubUrlOk(tok, requireCorrectHubUrl)
    THEN AuthErr("ValidationError", 0)
    ELSE IF ~validateScopes(tok.scopes)
    THEN AuthErr("ValidationError", 0)
    ELSE IF ~tok.sigOk \/ tok.challenge # "ok" \/ tok.exp = "past"
    THEN AuthErr("ValidationError", 0)
    ELSE IF tok.hasAsso
    THEN checkAssociationToken(tok.asso, address, floor)
    ELSE AuthOk("")

\* parseAuthHeader: only "bearer v1:<token>" yields an authentication object.
parseAuthHeader(tok) == tok.header = "v1"

\* The whitelist of the configuration; config.js leaves it unset.
Whitelist == {"A", "W"}

\* A token check that accepts whatever it is given.
validateAuthorizationHeaderUnverified(tok, address, floor, cfg) == AuthOk("")

\* validateAuthorizationHeader: parse, verify, then the whitelist check on the
\* effective signer assoIssAddress || address.
validateAuthorizationHeader(tok, address, floor, cfg) ==
    IF ~parseAuthHeader(tok)
    THEN AuthErr("ValidationError", 0)
    ELSE LET r == isAuthenticationValid(tok, address, floor, cfg.requireCorrectHubUrl)
             signingAddress == IF r.assoIss # "" THEN r.assoIss ELSE address
         IN  IF r.err # "" THEN r
             ELSE IF cfg.useWhitelist /\ signingAddress \notin Whitelist
             THEN AuthErr("ValidationError", 0)
             ELSE r

(***************************************************************************)
(* Scopes and paths.                                                       *)
(***************************************************************************)
\* AuthScopeValues.parseEntries: the domains of the entries of one scope type.
parseEntries(scopes, type) ==
    LET OfType(e) == e.scope = type
        sel == SelectSeq(scopes, OfType)
    IN  [i \in 1..Len(sel) |-> sel[i].domain]

\* !!prefixes.find(p => path.startsWith(p)): find gives the first prefix the
\* path starts with, and the empty string, when that is the one, is falsy.
MatchPrefix(path, prefixes) ==
    LET hits == {i \in 1..Len(prefixes) : StartsWith(path, prefixes[i])}
    IN  hits # {} /\ prefixes[CHOOSE i \in hits : \A j \in hits : i <= j] # <<>>

\* !!paths.find(p => path === p).
MatchPath(path, paths) ==
    path # <<>> /\ \E i \in 1..Len(paths) : paths[i] = path

ScopeMatch(path, prefixes, paths) ==
    MatchPrefix(path, prefixes) \/ MatchPath(path, paths)

\* HubServer.isArchivalRestricted.
isArchivalRestricted(scopes) ==
    Len(parseEntries(scopes, "putFileArchival")) > 0
    \/ Len(parseEntries(scopes, "putFileArchivalPrefix")) > 0

\* HubServer.checkArchivalRestrictions: TRUE when it returns, FALSE when it throws.
checkArchivalRestrictions(path, scopes) ==
    isArchivalRestricted(scopes) =>
        ScopeMatch(path, parseEntries(scopes, "putFileArchivalPrefix"),
                   parseEntries(scopes, "putFileArchival"))

\* The write-scope check of handleRequest and of a PUT leaf.
WriteScopeOk(path, scopes) ==
    LET prefixes == parseEntries(scopes, "putFilePrefix")
        paths == parseEntries(scopes, "putFile")
    IN  (Len(prefixes) > 0 \/ Len(paths) > 0) => ScopeMatch(path, prefixes, paths)

\* The delete-scope check of handleDelete and of a DELETE leaf.
DeleteScopeOk(path, scopes) ==
    LET prefixes == parseEntries(scopes, "deleteFilePrefix")
        paths == parseEntries(scopes, "deleteFile")
    IN  (Len(prefixes) > 0 \/ Len(paths) > 0) => ScopeMatch(path, prefixes, paths)

\* HubServer.getFileName: the last part of filePath.split('/').
getFileName(filePath) == SubSeq(filePath, LastSlash(filePath) + 1, Len(filePath))

\* HubServer.getHistoricalFileName: the directory part, then
\* .history.<Date.now()>.<generateUniqueID()>.<fileName>; stamp stands for the
\* time and the random id together.
getHistoricalFileName(filePath, stamp) ==
    SubSeq(filePath, 1, Len(filePath) - Len(getFileName(filePath)))
        \o <<".history.">> \o stamp \o <<".">> \o getFileName(filePath)

\* A test that looks at the start of the whole path.
isHistoricalFileOfPath(filePath) == StartsWith(filePath, <<".history.">>)

\* HubServer.isHistoricalFile.
isHistoricalFile(filePath) == StartsWith(getFileName(filePath), <<".history.">>)

\* A path check that lets every path through.
isPathValidAlways(path) == TRUE

\* isPathValid of the driver: the path must not include "..".
isPathValid(path) == ~Includes(path, "..")

(***************************************************************************)
(* The driver's view of the bucket.  The object store itself (Google Cloud *)
(* Storage) is outside the repository: every call of it is one atomic      *)
(* step, a conditional call fails when the generation it names is not the  *)
(* live one, and generation 0 stands for "must not exist".                 *)
(***************************************************************************)
Key(address, path) == <<address, path>>

Exists(k) == k \in DOMAIN objects

Put(objs, k, v) == [x \in DOMAIN objs \cup {k} |-> IF x = k THEN v ELSE objs[x]]

Drop(objs, k) == [x \in DOMAIN objs \ {k} |-> objs[x]]

\* formatETagFromMD5: the etag is the quoted hex md5 of the body; bodies are
\* numbered, and different bodies have different md5 sums.
formatETagFromMD5(body) == ToString(body)

\* parseFileMetadataStat's contentLength: the size of the stored body in
\* bytes.  Bodies are numbered; their lengths are 1, 2 or 3 bytes, and
\* different bodies can have the same length.
contentLength(body) == 1 + (body % 3)

\* GcDriver._performStat.
performStat(k) ==
    IF Exists(k)
    THEN [exists |-> TRUE, etag |-> formatETagFromMD5(objects[k].body),
          generation |-> objects[k].gen,
          contentLength |-> contentLength(objects[k].body)]
    ELSE [exists |-> FALSE, etag |-> "", generation |-> 0, contentLength |-> 0]

\* A check that never compares the tags.
validateMatchTagSkipped(ifMatchTag, currentETag) == TRUE

\* GcDriver.validateMatchTag: TRUE when it returns, FALSE when it throws.
validateMatchTag(ifMatchTag, currentETag) ==
    ~(ifMatchTag # "" /\ ifMatchTag # "*" /\ ifMatchTag # currentETag)

\* A store that takes every conditional call.
GenerationMatchAlways(k, generation) == TRUE

\* The precondition ifGenerationMatch of a conditional call.
GenerationMatch(k, generation) ==
    IF generation = 0 THEN ~Exists(k) ELSE Exists(k) /\ objects[k].gen = generation

(***************************************************************************)
(* Requests.  A request is one call of a route; its mutations are units:   *)
(* the one PUT of /store, the one DELETE of /delete, the leaves of a       *)
(* /perform-files batch.  A unit's pc is the driver call it waits for.     *)
(***************************************************************************)
nItems == 10

Unit(op, path, body) ==
    [op |-> op, path |-> path, body |-> body, ifMatchTag |-> "",
     ifNoneMatchTag |-> "", doIgnoreDoesNotExistError |-> FALSE,
     pc |-> "wait", generation |-> 0, contentLength |-> 0, action |-> "",
     hist |-> <<>>,
     renamed |-> FALSE, prev |-> 0, invoked |-> {}, res |-> "",
     expectedEtag |-> "", used |-> {}, logs |-> <<>>,
     clKind |-> "absent", cl |-> 0, stream |-> <<>>, monitored |-> 0,
     forwarded |-> 0, destroyed |-> FALSE,
     child |-> 0, inner |-> "leaf", coll |-> 0, content |-> "string", bytes |-> 0,
     contentType |-> 24]

NoList == [entries |-> {}, nullEntry |-> FALSE, page |-> 0, raw |-> {},
           driverPage |-> 0,
           pageSize |-> [kind |-> "absent", n |-> 0, half |-> FALSE], maxResults |-> 0]

Idle ==
    [id |-> 0, kind |-> "none", route |-> "", addr |-> "", tok |-> GoodToken(""),
     pc |-> "idle", floorRead |-> 0, floor |-> 0, isSeq |-> FALSE,
     units |-> <<>>, resp |-> "", ts |-> 0, stat |-> FALSE, list |-> NoList,
     need |-> 0, assoIss |-> "", archival |-> FALSE, errFloor |-> 0,
     found |-> "", isBkBltd |-> FALSE, results |-> <<>>, part |-> <<>>,
     tasks |-> <<>>, created |-> TRUE, currentTry |-> 1, oEy |-> NoEntity]

NewReq(r, kind, route, address, tok) ==
    [Idle EXCEPT !.id = r, !.kind = kind, !.route = route, !.addr = address,
                 !.tok = tok, !.pc = "auth_read"]

Settled(u) == u.pc \in {"ok", "fail"}

Fail(u, kind) == [u EXCEPT !.pc = "fail", !.res = kind]

\* new PreconditionFailedError(message, expectedEtag); "" is the null etag.
PreconditionFailed(u, expectedEtag) ==
    [Fail(u, "PreconditionFailedError") EXCEPT !.expectedEtag = expectedEtag]

\* The stamp of the historical name a unit makes: unique to the unit, as the
\* time and the random id are to a call of getHistoricalFileName.
Stamp(r, i) == <<ToString(r), ToString(i)>>

\* GcDriver.performWrite up to its first await: the path and content-type checks.
BeginWrite(u) ==
    IF ~isPathValid(u.path)
    THEN Fail([u EXCEPT !.invoked = @ \cup {"performWrite"}], "BadPathError")
    ELSE IF u.contentType > 1024
    THEN Fail([u EXCEPT !.invoked = @ \cup {"performWrite"}], "InvalidInputError")
    ELSE [u EXCEPT !.pc = "w_stat", !.invoked = @ \cup {"performWrite"}]

\* getHistoricalFileName, then GcDriver.performRename up to its first await.
BeginRename(u, stamp) ==
    LET historicalPath == getHistoricalFileName(u.path, stamp)
    IN  IF ~isPathValid(u.path) \/ ~isPathValid(historicalPath)
        THEN Fail([u EXCEPT !.invoked = @ \cup {"performRename"}], "BadPathError")
        ELSE [u EXCEPT !.pc = "rn_stat", !.hist = historicalPath,
                       !.invoked = @ \cup {"performRename"}]

\* GcDriver.performDelete up to its first await.
BeginDelete(u) ==
    IF ~isPathValid(u.path)
    THEN Fail([u EXCEPT !.invoked = @ \cup {"performDelete"}], "BadPathError")
    ELSE [u EXCEPT !.pc = "d_stat", !.invoked = @ \cup {"performDelete"}]

\* The driver call a mutation starts with: the archival rename when the
\* scopes are archival-restricted, else the write or the delete itself.
BeginDriver(u, archival, stamp) ==
    IF archival THEN BeginRename(u, stamp)
    ELSE IF u.op = "PUT" THEN BeginWrite(u)
    ELSE BeginDelete(u)

\* A blacklist that blocks nobody.
isBlacklistedNever(type, performType) == FALSE

\* A blacklist whose type 2 blocks every operation.
isBlacklistedAll(type, performType) == type = 1 \/ type = 2

\* BlacklistCache.isBlacklisted on a blacklist type.
isBlacklisted(type, performType) ==
    type = 1 \/ (type = 2 /\ performType = "PUT_FILE")

\* The checks of data.content in a PUT leaf: "" when they pass.  content is
\* string, object or other; bytes is Buffer.byteLength of the content.
ContentCheck(u) ==
    IF u.content \notin {"string", "object"} THEN "InvalidInputError"
    ELSE IF u.bytes > maxFileUploadSizeBytes THEN "PayloadTooLargeError"
    ELSE ""

\* HubServer._handlePerformFile up to the first driver call: the archival
\* check, the blacklist check of the leaf's type, the scope check, and for a
\* PUT the checks of its content.
StartLeaf(rq, u, i, type) ==
    IF ~checkArchivalRestrictions(u.path, rq.tok.scopes)
    THEN Fail(u, "ValidationError")
    ELSE IF u.op = "PUT"
    THEN IF isBlacklisted(type, "PUT_FILE") \/ ~WriteScopeOk(u.path, rq.tok.scopes)
         THEN Fail(u, "ValidationError")
         ELSE IF ContentCheck(u) # ""
         THEN Fail(u, ContentCheck(u))
         ELSE BeginDriver(u, isArchivalRestricted(rq.tok.scopes), Stamp(rq.id, i))
    ELSE IF u.op = "DELETE"
    THEN IF isBlacklisted(type, "DELETE_FILE") \/ ~DeleteScopeOk(u.path, rq.tok.scopes)
         THEN Fail(u, "ValidationError")
         ELSE BeginDriver(u, isArchivalRestricted(rq.tok.scopes), Stamp(rq.id, i))
    ELSE Fail(u, "InvalidInputError")

\* The request is answered: resp is the status or the error kind.
Answer(rq, resp) == [rq EXCEPT !.pc = "done", !.resp = resp]

\* A driver call of the unit is under way.
InDriver(u) == u.pc \in {"rn_stat", "rn_move", "w_stat", "w_save", "d_stat", "d_del"}

\* The leaves of child c of the root node of a batch.
LeavesOf(rq, c) == {i \in 1..Len(rq.units) : rq.units[i].child = c}

\* Promise.all and the for-of loops keep the order of their input: the
\* indices of a set, smallest first.
RECURSIVE InOrder(_)
InOrder(S) ==
    IF S = {} THEN <<>>
    ELSE LET m == CHOOSE x \in S : \A y \in S : x <= y
         IN  <<m>> \o InOrder(S \ {m})

\* A parallel node that starts all its children at once.
WindowAll(waiting) == waiting

\* data.values.slice(i, i + nItems): the next nItems of the children that
\* have not been started.
Window(waiting) == {i \in waiting : Cardinality({j \in waiting : j < i}) < nItems}

\* A node that stops after a failure, sequential or not.
BreakAlways(isSequential, failed) == failed

\* A sequential node that goes on after a failure.
BreakNever(isSequential, failed) == FALSE

\* The break of a sequential node: some result was not a success.
Break(isSequential, failed) == isSequential /\ failed

\* The results of a set of units, in the order a mutation of Promise.all
\* could give them.
CollectReversed(rq, S) == [j \in 1..Cardinality(S) |-> InOrder(S)[Cardinality(S) + 1 - j]]

\* results.push(...pResults) for the children of a window, in input order.
Collect(rq, S) == InOrder(S)

\* HubServer._handlePerformFiles on child c of the root, from where it
\* stands as far as it can go: when nothing of the child is in flight, the
\* results that came in are pushed to the child's results; then a
\* sequential child (a leaf is one) starts its next leaf unless a result
\* failed, a parallel child its next window.
RECURSIVE RunChild(_, _, _)
RunChild(rq, c, type) ==
    LET S == LeavesOf(rq, c)
        n == Len(rq.units)
        sequential == \A i \in S : rq.units[i].inner # "par"
        settled == {i \in S : Settled(rq.units[i]) /\ rq.units[i].coll = 0}
        rq1 == [rq EXCEPT !.part[c] = @ \o Collect(rq, settled),
                          !.units = [i \in 1..n |->
                                       IF i \in settled
                                       THEN [rq.units[i] EXCEPT !.coll = 1]
                                       ELSE rq.units[i]]]
        waiting == {i \in S : rq.units[i].pc = "wait"}
        next == IF sequential THEN {i \in waiting : \A j \in waiting : i <= j}
                ELSE Window(waiting)
    IN  IF \E i \in S : InDriver(rq.units[i])
        THEN rq
        ELSE IF waiting = {} \/ Break(sequential, \E i \in S : rq.units[i].pc = "fail")
        THEN rq1
        ELSE RunChild([rq1 EXCEPT !.units =
                         [i \in 1..n |-> IF i \in next
                                         THEN StartLeaf(rq1, rq1.units[i], i, type)
                                         ELSE rq1.units[i]]], c, type)

\* RunChild for the children cs, in order.
RECURSIVE RunAll(_, _, _)
RunAll(rq, cs, type) ==
    IF cs = <<>> THEN rq
    ELSE RunAll(RunChild(rq, Head(cs), type), Tail(cs), type)

\* The results of the children cs, one child after the other.
RECURSIVE Flatten(_, _)
Flatten(part, cs) ==
    IF cs = <<>> THEN <<>> ELSE part[Head(cs)] \o Flatten(part, Tail(cs))

\* HubServer._handlePerformFiles on the root node and the tails of
\* handleRequest and handleDelete: what the request does once a unit in
\* flight has settled.  The children of the root go on by themselves; when
\* all that were started have returned, their results are pushed to the
\* root's results, child by child in input order; then a sequential root
\* starts its next child unless a result failed, a parallel root its next
\* window of nItems children.
RECURSIVE Advance(_, _)
Advance(rq, type) ==
    LET n == Len(rq.units)
        children == {rq.units[i].child : i \in 1..n}
        started == {c \in children :
                      \E i \in LeavesOf(rq, c) : rq.units[i].pc # "wait"}
        rq1 == RunAll(rq, InOrder(started), type)
        returned == {c \in started :
                       \E i \in LeavesOf(rq1, c) : rq1.units[i].coll = 1}
        rq2 == [rq1 EXCEPT !.results = @ \o Flatten(rq1.part, Collect(rq1, returned)),
                           !.units = [i \in 1..n |->
                                        IF rq1.units[i].coll = 1
                                        THEN [rq1.units[i] EXCEPT !.coll = 2]
                                        ELSE rq1.units[i]]]
        waiting == children \ started
        next == IF rq.isSeq THEN {c \in waiting : \A d \in waiting : c <= d}
                ELSE Window(waiting)
    IN  IF rq.kind \in {"store", "delete"}
        THEN IF InDriver(rq.units[1]) THEN rq
             ELSE IF rq.units[1].pc = "fail" THEN Answer(rq, rq.units[1].res)
             ELSE [rq EXCEPT !.pc = "enqueue"]
        ELSE IF \E i \in 1..n : InDriver(rq1.units[i])
        THEN rq1
        ELSE IF waiting = {} \/ Break(rq.isSeq, \E i \in 1..n : rq1.units[i].pc = "fail")
        THEN [rq2 EXCEPT !.pc = "enqueue"]
        ELSE Advance(RunAll(rq2, InOrder(next), type), type)

\* The performType a handler passes to the blacklist check.
PerformType(kind) ==
    CASE kind = "store" -> "PUT_FILE"
      [] kind = "delete" -> "DELETE_FILE"
      [] kind = "list" -> "LIST_FILES"
      [] OTHER -> "PERFORM_FILES"

\* parseInt(requestHeaders['content-length'], 10) is finite and positive:
\* clKind is absent, nan (no number to parse) or num, cl the parsed number.
isLengthFinite(u) == u.clKind = "num" /\ u.cl > 0

\* A handler that takes every Content-Length.
ContentLengthCheckNone(kind, u) == ""

\* The Content-Length check of handleRequest: "" when it passes.
ContentLengthCheck(kind, u) ==
    IF kind = "store" /\ isLengthFinite(u) /\ u.cl > maxFileUploadSizeBytes
    THEN "PayloadTooLargeError" ELSE ""

\* maxContentLength of handleRequest: the cap of the upload monitor.
maxContentLength(u) ==
    IF isLengthFinite(u) THEN u.cl ELSE maxFileUploadSizeBytes

\* A monitor that lets every chunk through.
OverCapNever(u, totalBytes) == FALSE

\* The progress callback of handleRequest: the running total is over the cap.
OverCap(u, totalBytes) == totalBytes > maxContentLength(u)

\* Handlers that look at neither header.
HeaderCheckNone(kind, u) == ""

\* The header checks of handleRequest and handleDelete: "" when they pass.
HeaderCheck(kind, u) ==
    IF kind = "store"
    THEN IF (u.ifMatchTag # "" /\ u.ifNoneMatchTag # "")
            \/ (u.ifNoneMatchTag # "" /\ u.ifNoneMatchTag # "*")
         THEN "PreconditionFailedError" ELSE ""
    ELSE IF u.ifNoneMatchTag # "" THEN "PreconditionFailedError" ELSE ""

\* handleRequest, handleDelete, handleListFiles and handlePerformFiles from
\* the point where the revocation floor and the blacklist type are known up
\* to their next await: blacklist, validate, scopes, headers, first driver call.
AfterAuth(rq, floor, type) ==
    LET auth == validateAuthorizationHeader(rq.tok, rq.addr, floor, config)
        scopes == rq.tok.scopes
        rq1 == [rq EXCEPT !.floor = floor, !.assoIss = auth.assoIss,
                          !.archival = isArchivalRestricted(scopes)]
    IN  IF isBlacklisted(type, PerformType(rq.kind))
        THEN Answer([rq EXCEPT !.floor = floor, !.isBkBltd = TRUE], "ValidationError")
        ELSE IF auth.err # ""
        THEN Answer([rq EXCEPT !.floor = floor, !.errFloor = auth.floor], auth.err)
        ELSE IF rq.kind = "list" THEN [rq1 EXCEPT !.pc = "list"]
        ELSE IF rq.kind = "perform" THEN Advance([rq1 EXCEPT !.pc = "run"], type)
        ELSE LET u == rq.units[1]
                 scopeOk == IF rq.kind = "store" THEN WriteScopeOk(u.path, scopes)
                            ELSE DeleteScopeOk(u.path, scopes)
             IN  IF ~checkArchivalRestrictions(u.path, scopes) \/ ~scopeOk
                 THEN Answer(rq1, "ValidationError")
                 ELSE IF HeaderCheck(rq.kind, u) # ""
                 THEN Answer(rq1, HeaderCheck(rq.kind, u))
                 ELSE IF ContentLengthCheck(rq.kind, u) # ""
                 THEN Answer(rq1, ContentLengthCheck(rq.kind, u))
                 ELSE Advance([rq1 EXCEPT !.pc = "run", !.units =
                          <<BeginDriver(u, rq1.archival, Stamp(rq.id, 1))>>], type)

\* BlacklistCache.getBlacklistType: the cached type, else the datastore's.
getBlacklistType(address) ==
    IF blCache[address] # NoEntry THEN blCache[address] ELSE blacklist[address]

Endpoint(rq) == Key(rq.addr, rq.units[1].path)

\* The request record of r becomes rq2.  A request of the mutex route holds
\* its endpoint in AsyncMutexScope._opened from tryAcquire until it settles.
\* A variant whose owner never gives the id back.
ReleaseNever(set, id) == set

\* AsyncMutexScope: this._opened.delete(id), in the owner's finally.
Release(set, id) == set \ {id}

Becomes(r, rq2) ==
    /\ req' = [req EXCEPT ![r] = rq2]
    /\ opened' = IF rq2.route = "mutex"
                 THEN IF rq2.pc = "done" THEN Release(opened, Endpoint(rq2))
                      ELSE opened \cup {Endpoint(rq2)}
                 ELSE opened

\* AuthTimestampCache.getAuthTimestamp up to its await, and, on a cache hit,
\* the handler's continuation.
Begin(r, rq0) ==
    LET a == rq0.addr
    IN  IF atCache[a] > 0
        THEN /\ Becomes(r, AfterAuth(rq0, atCache[a], getBlacklistType(a)))
             /\ blCache' = [blCache EXCEPT ![a] = getBlacklistType(a)]
        ELSE /\ Becomes(r, rq0)
             /\ UNCHANGED blCache

\* Requests take the ids 1, 2, ... in the order of their arrival.
IsNext(r) == req[r].kind = "none" /\ \A q \in 1..(r-1) : req[q].kind # "none"

Body(r, i) == 10 * r + i

\* ---- the routes ----

StoreUnit(r, path, ifMatchTag, ifNoneMatchTag) ==
    [Unit("PUT", path, Body(r, 1)) EXCEPT !.ifMatchTag = ifMatchTag,
                                          !.ifNoneMatchTag = ifNoneMatchTag]

DeleteUnit(r, path, ifMatchTag, ifNoneMatchTag) ==
    [Unit("DELETE", path, 0) EXCEPT !.ifMatchTag = ifMatchTag,
                                    !.ifNoneMatchTag = ifNoneMatchTag]

\* The request as it arrives.  need and found are for the record: the
\* largest timestamp set so far, and the etag of the object then at the
\* path of the first unit ("" when there is none).
Arrived(r, kind, route, address, tok, units) ==
    [NewReq(r, kind, route, address, tok) EXCEPT
        !.units = units, !.need = hist.maxSet[address],
        !.found = IF units # <<>> /\ Exists(Key(address, units[1].path))
                  THEN formatETagFromMD5(objects[Key(address, units[1].path)].body)
                  ELSE ""]

\* POST /store/:address/:path of index.js: the handler runs at once.
StoreRoute(r, address, path, tok, ifMatchTag, ifNoneMatchTag) ==
    /\ IsNext(r)
    /\ Begin(r, Arrived(r, "store", "direct", address, tok,
                        <<StoreUnit(r, path, ifMatchTag, ifNoneMatchTag)>>))
    /\ UNCHANGED <<objects, genCtr, revocation, blacklist, atCache, queue,
                   hist, config, authIn, authOut>>

\* POST /store/:address/:path of index.js with a Content-Type header of the
\* given length (24: none was sent, and application/octet-stream stands in).
StoreTyped(r, address, path, tok, ifMatchTag, ifNoneMatchTag, contentType) ==
    /\ IsNext(r)
    /\ Begin(r, Arrived(r, "store", "direct", address, tok,
                        <<[StoreUnit(r, path, ifMatchTag, ifNoneMatchTag) EXCEPT
                              !.contentType = contentType]>>))
    /\ UNCHANGED <<objects, genCtr, revocation, blacklist, atCache, queue,
                   hist, config, authIn, authOut>>

\* POST /store/:address/:path of index.js with a Content-Length header and a
\* body that comes in chunks; chunks holds their lengths.
StoreUpload(r, address, path, tok, clKind, cl, chunks) ==
    /\ IsNext(r)
    /\ Begin(r, Arrived(r, "store", "direct", address, tok,
                        <<[StoreUnit(r, path, "", "") EXCEPT
                              !.clKind = clKind, !.cl = cl, !.stream = chunks]>>))
    /\ UNCHANGED <<objects, genCtr, revocation, blacklist, atCache, queue,
                   hist, config, authIn, authOut>>

\* DELETE /delete/:address/:path of index.js.
DeleteRoute(r, address, path, tok, ifMatchTag, ifNoneMatchTag) ==
    /\ IsNext(r)
    /\ Begin(r, Arrived(r, "delete", "direct", address, tok,
                        <<DeleteUnit(r, path, ifMatchTag, ifNoneMatchTag)>>))
    /\ UNCHANGED <<objects, genCtr, revocation, blacklist, atCache, queue,
                   hist, config, authIn, authOut>>

\* AsyncMutexScope.tryAcquire as the guarded routes use it: false when the
\* endpoint is opened, and the route answers 409; else the handler runs.
tryAcquire(r, rq0) ==
    IF Endpoint(rq0) \in opened
    THEN /\ Becomes(r, Answer([rq0 EXCEPT !.route = "refused"], "ConflictError"))
         /\ UNCHANGED blCache
    ELSE Begin(r, rq0)

\* POST /store/:address/:path of the route that guards the endpoint.
StoreRouteMutex(r, address, path, tok, ifMatchTag, ifNoneMatchTag) ==
    /\ IsNext(r)
    /\ tryAcquire(r, Arrived(r, "store", "mutex", address, tok,
                             <<StoreUnit(r, path, ifMatchTag, ifNoneMatchTag)>>))
    /\ UNCHANGED <<objects, genCtr, revocation, blacklist, atCache, queue,
                   hist, config, authIn, authOut>>

\* DELETE /delete/:address/:path of the route that guards the endpoint.
DeleteRouteMutex(r, address, path, tok, ifMatchTag, ifNoneMatchTag) ==
    /\ IsNext(r)
    /\ tryAcquire(r, Arrived(r, "delete", "mutex", address, tok,
                             <<DeleteUnit(r, path, ifMatchTag, ifNoneMatchTag)>>))
    /\ UNCHANGED <<objects, genCtr, revocation, blacklist, atCache, queue,
                   hist, config, authIn, authOut>>

\* POST /store of the guarded route with a Content-Length header and a body
\* that comes in chunks.
StoreUploadMutex(r, address, path, tok, clKind, cl, chunks) ==
    /\ IsNext(r)
    /\ tryAcquire(r, Arrived(r, "store", "mutex", address, tok,
                             <<[StoreUnit(r, path, "", "") EXCEPT
                                   !.clKind = clKind, !.cl = cl, !.stream = chunks]>>))
    /\ UNCHANGED <<objects, genCtr, revocation, blacklist, atCache, queue,
                   hist, config, authIn, authOut>>

\* AsyncMutexScope.tryAcquire(id, spawnOwner) with a spawnOwner that throws
\* before it returns a promise: false on an opened id, else the id is added,
\* the catch deletes it and the error is thrown on.
tryAcquireThrowing(r, address, path) ==
    LET rq0 == [Arrived(r, "work", "refused", address, GoodToken(""),
                        <<Unit("NONE", path, 0)>>) EXCEPT !.pc = "done"]
        id == Endpoint(rq0)
    IN  /\ IsNext(r)
        /\ req' = [req EXCEPT ![r] =
                     [rq0 EXCEPT !.resp = IF id \in opened THEN "false" ELSE "thrown"]]
        /\ opened' = IF id \in opened THEN opened
                     ELSE Release(opened \cup {id}, id)
        /\ UNCHANGED <<objects, genCtr, revocation, blacklist, atCache, blCache,
                       queue, hist, config, authIn, authOut>>

\* A field of a leaf of the request body, or what stands for its absence.
Field(leaf, name, default) == IF name \in DOMAIN leaf THEN leaf[name] ELSE default

\* Leaf i of a batch: [op, path, doIgnoreDoesNotExistError], and where they
\* matter, content and bytes (the kind and the byte length of data.content)
\* and child and inner: the child of the root node the leaf is in, and
\* whether that child is the leaf itself or a sequential or parallel node.
LeafUnit(r, i, leaf) ==
    [Unit(leaf.op, leaf.path, Body(r, i)) EXCEPT
        !.doIgnoreDoesNotExistError = leaf.doIgnoreDoesNotExistError,
        !.content = Field(leaf, "content", "string"),
        !.bytes = Field(leaf, "bytes", 0),
        !.child = Field(leaf, "child", i),
        !.inner = Field(leaf, "inner", "leaf")]

\* POST /perform-files/:address: leaves is the list of the leaves of the
\* request body, in the order of the body.
PerformFilesRoute(r, address, tok, isSequential, leaves) ==
    /\ IsNext(r)
    /\ Begin(r, [Arrived(r, "perform", "direct", address, tok,
                    [i \in 1..Len(leaves) |-> LeafUnit(r, i, leaves[i])])
                  EXCEPT !.isSeq = isSequential,
                         !.part = [c \in {LeafUnit(r, i, leaves[i]).child :
                                            i \in 1..Len(leaves)} |-> <<>>]])
    /\ UNCHANGED <<objects, genCtr, revocation, blacklist, atCache, queue,
                   hist, config, authIn, authOut>>

\* GET /list-files/:address.
ListFilesRoute(r, address, tok, stat, page) ==
    /\ IsNext(r)
    /\ Begin(r, [Arrived(r, "list", "direct", address, tok, <<>>)
                  EXCEPT !.stat = stat, !.list = [NoList EXCEPT !.page = page]])
    /\ UNCHANGED <<objects, genCtr, revocation, blacklist, atCache, queue,
                   hist, config, authIn, authOut>>

\* ---- AuthTimestampCache.getAuthTimestamp after a cache miss ----

\* driver.performReadAuthTimestamp answers.
ReadAuthTimestamp(r) ==
    /\ req[r].pc = "auth_read"
    /\ req' = [req EXCEPT ![r].pc = "auth_resume",
                          ![r].floorRead = revocation[req[r].addr].timestamp]
    /\ UNCHANGED <<objects, genCtr, revocation, blacklist, atCache, blCache,
                   opened, queue, hist, config, authIn, authOut>>

\* The recheck of the cache after the await, and the handler's continuation.
getAuthTimestamp(r) ==
    LET rq == req[r]
        a == rq.addr
        cached == atCache[a]
        keep == cached > 0 /\ cached > rq.floorRead
        floor == IF keep THEN cached ELSE rq.floorRead
    IN  /\ rq.pc = "auth_resume"
        /\ atCache' = IF keep THEN atCache ELSE [atCache EXCEPT ![a] = rq.floorRead]
        /\ hist' = [hist EXCEPT !.maxCached[a] = Max(@, atCache'[a])]
        /\ Becomes(r, AfterAuth(rq, floor, getBlacklistType(a)))
        /\ blCache' = [blCache EXCEPT ![a] = getBlacklistType(a)]
        /\ UNCHANGED <<objects, genCtr, revocation, blacklist, queue,
                       config, authIn, authOut>>

\* ---- the driver's awaited steps ----

InFlight(r, i, pc) == i \in 1..Len(req[r].units) /\ req[r].units[i].pc = pc

UnitKey(r, i) == Key(req[r].addr, req[r].units[i].path)

\* Unit i of request r becomes u2, and the request goes on as far as it can.
UnitStep(r, i, u2) ==
    /\ Becomes(r, Advance([req[r] EXCEPT !.units[i] = u2],
                          getBlacklistType(req[r].addr)))
    /\ UNCHANGED <<revocation, blacklist, atCache, blCache, queue, config,
                   authIn, authOut>>

createFileLog(path, action, size, sizeChange) ==
    [path |-> path, action |-> action, size |-> size, sizeChange |-> sizeChange]

\* A size change that is the whole new size.
ctlChangeWhole(udtdCtl, ctl) == udtdCtl

\* performWrite's ctlChange: the new size less the size the stat saw.
ctlChange(udtdCtl, ctl) == udtdCtl - ctl

\* performRename threw DoesNotExist: a PUT swallows it and goes on to write,
\* a DELETE lets it through.
RenameMissing(u) ==
    IF u.op = "PUT" THEN BeginWrite(u) ELSE Fail(u, "DoesNotExist")

\* GcDriver.performRename: the stat and the match-tag check.
RenameStat(r, i) ==
    LET u == req[r].units[i]
        st == performStat(UnitKey(r, i))
    IN  /\ InFlight(r, i, "rn_stat")
        /\ UnitStep(r, i,
              IF ~st.exists THEN RenameMissing(u)
              ELSE IF ~validateMatchTag(u.ifMatchTag, st.etag)
              THEN PreconditionFailed(u, st.etag)
              ELSE [u EXCEPT !.pc = "rn_move", !.generation = st.generation,
                             !.contentLength = st.contentLength])
        /\ UNCHANGED <<objects, genCtr, hist>>

\* GcDriver.performRename: the move of the generation the stat saw.  The
\* store answers 404 or 412 when that generation is not the live one.
RenameMove(r, i, code) ==
    LET u == req[r].units[i]
        k == UnitKey(r, i)
        rq == req[r]
    IN  /\ InFlight(r, i, "rn_move")
        /\ IF ~Exists(k) \/ (objects[k].gen # u.generation /\ code = 404)
           THEN /\ UnitStep(r, i, RenameMissing(u))
                /\ UNCHANGED <<objects, genCtr, hist>>
           ELSE IF objects[k].gen # u.generation
           THEN /\ UnitStep(r, i, Fail(u, "PreconditionFailedError"))
                /\ UNCHANGED <<objects, genCtr, hist>>
           ELSE LET udtdCtl == contentLength(objects[k].body)
                    moved == [u EXCEPT !.renamed = TRUE, !.prev = objects[k].body,
                                !.used = @ \cup {u.generation},
                                !.logs = @ \o
                                   <<createFileLog(u.path, "DELETE_FILE", 0,
                                                   -1 * u.contentLength),
                                     createFileLog(u.hist, "CREATE_FILE", udtdCtl,
                                                   udtdCtl)>>]
                IN  /\ objects' = Put(Drop(objects, k), Key(rq.addr, u.hist),
                                      [body |-> objects[k].body, gen |-> genCtr])
                    /\ genCtr' = genCtr + 1
                    /\ UnitStep(r, i, IF u.op = "PUT" THEN BeginWrite(moved)
                                      ELSE [moved EXCEPT !.pc = "ok"])
                    /\ UNCHANGED hist

\* GcDriver.performWrite: the stat, the match-tag and if-none-match checks.
WriteStat(r, i) ==
    LET u == req[r].units[i]
        st == performStat(UnitKey(r, i))
    IN  /\ InFlight(r, i, "w_stat")
        /\ UnitStep(r, i,
              IF ~validateMatchTag(u.ifMatchTag, st.etag)
              THEN PreconditionFailed(u, st.etag)
              ELSE IF u.ifNoneMatchTag = "*" /\ st.exists
              THEN Fail(u, "PreconditionFailedError")
              ELSE [u EXCEPT !.pc = "w_save", !.generation = st.generation,
                             !.contentLength = st.contentLength,
                             !.action = IF st.exists THEN "UPDATE_FILE"
                                        ELSE "CREATE_FILE"])
        /\ UNCHANGED <<objects, genCtr, hist>>

\* monitorStreamProgress: the transform of the pass-through stream takes the
\* next chunk of the request body while performWrite is under way.  It adds
\* the chunk's length to the running total and calls the progress callback;
\* when that throws, the request stream is destroyed, the chunk is not
\* passed on and the pipeline rejects with PayloadTooLargeError; else the
\* chunk is passed on to the driver's upload.
StreamChunk(r, i) ==
    LET u == req[r].units[i]
        chunk == Head(u.stream)
        totalBytes == u.monitored + chunk
        counted == [u EXCEPT !.monitored = totalBytes, !.stream = Tail(@)]
    IN  /\ i \in 1..Len(req[r].units)
        /\ u.pc \in {"w_stat", "w_save"}
        /\ u.stream # <<>>
        /\ UnitStep(r, i,
              IF OverCap(u, totalBytes)
              THEN Fail([counted EXCEPT !.destroyed = TRUE], "PayloadTooLargeError")
              ELSE [counted EXCEPT !.forwarded = @ + chunk])
        /\ UNCHANGED <<objects, genCtr, hist>>

\* GcDriver.performWrite: the save under the generation the stat saw; it
\* ends when the whole body has been read.
WriteSave(r, i) ==
    LET u == req[r].units[i]
        k == UnitKey(r, i)
    IN  /\ InFlight(r, i, "w_save")
        /\ u.stream = <<>>
        /\ IF ~GenerationMatch(k, u.generation)
           THEN /\ UnitStep(r, i, Fail(u, "PreconditionFailedError"))
                /\ UNCHANGED <<objects, genCtr, hist>>
           ELSE /\ objects' = Put(objects, k, [body |-> u.body, gen |-> genCtr])
                /\ genCtr' = genCtr + 1
                /\ hist' = [hist EXCEPT !.stored = @ \cup {u.body}]
                /\ UnitStep(r, i, [u EXCEPT !.pc = "ok",
                                      !.used = @ \cup {u.generation},
                                      !.logs = @ \o
                                         <<createFileLog(u.path, u.action,
                                              contentLength(u.body),
                                              ctlChange(contentLength(u.body),
                                                        u.contentLength))>>])

\* GcDriver.performWrite: bucketFile.save fails with an error other than
\* 412, which is thrown on; nothing is stored.
WriteSaveFails(r, i) ==
    LET u == req[r].units[i]
    IN  /\ InFlight(r, i, "w_save")
        /\ u.stream = <<>>
        /\ UnitStep(r, i, Fail(u, "ServerError"))
        /\ UNCHANGED <<objects, genCtr, hist>>

\* performDelete found no object: a leaf that ignores it succeeds.
DeleteMissing(u) ==
    IF u.doIgnoreDoesNotExistError THEN [u EXCEPT !.pc = "ok"]
    ELSE Fail(u, "DoesNotExist")

\* GcDriver.performDelete: the stat and the match-tag check.
DeleteStat(r, i) ==
    LET u == req[r].units[i]
        st == performStat(UnitKey(r, i))
    IN  /\ InFlight(r, i, "d_stat")
        /\ UnitStep(r, i,
              IF ~st.exists THEN DeleteMissing(u)
              ELSE IF ~validateMatchTag(u.ifMatchTag, st.etag)
              THEN PreconditionFailed(u, st.etag)
              ELSE [u EXCEPT !.pc = "d_del", !.generation = st.generation,
                             !.contentLength = st.contentLength])
        /\ UNCHANGED <<objects, genCtr, hist>>

\* GcDriver.performDelete: the delete under the generation the stat saw.
DeleteObject(r, i) ==
    LET u == req[r].units[i]
        k == UnitKey(r, i)
    IN  /\ InFlight(r, i, "d_del")
        /\ IF ~Exists(k)
           THEN /\ UnitStep(r, i, DeleteMissing(u))
                /\ UNCHANGED <<objects, genCtr, hist>>
           ELSE IF objects[k].gen # u.generation
           THEN /\ UnitStep(r, i, Fail(u, "PreconditionFailedError"))
                /\ UNCHANGED <<objects, genCtr, hist>>
           ELSE /\ objects' = Drop(objects, k)
                /\ UnitStep(r, i, [u EXCEPT !.pc = "ok",
                                      !.used = @ \cup {u.generation},
                                      !.logs = @ \o
                                         <<createFileLog(u.path, "DELETE_FILE", 0,
                                                         -1 * u.contentLength)>>])
                /\ UNCHANGED <<genCtr, hist>>

\* Results that carry no file logs.
LeafLogsNone(u) == <<>>

\* The fileLogs of a leaf's result: those of its driver calls when it
\* returned, none when it threw.
LeafLogs(u) == IF u.pc = "ok" THEN u.logs ELSE <<>>

\* The file logs of the results of a batch from the j-th on, in the order
\* of the results.
RECURSIVE AllLogs(_, _)
AllLogs(rq, j) ==
    IF j > Len(rq.results) THEN <<>>
    ELSE LeafLogs(rq.units[rq.results[j]]) \o AllLogs(rq, j + 1)

\* An addTaskToQueue that lets the failure of createTask through.
createTaskThrows(r, created) ==
    LET rq == req[r]
        fileLogs == IF rq.kind = "perform" THEN AllLogs(rq, 1) ELSE rq.units[1].logs
        failed == fileLogs # <<>> /\ ~created
    IN  /\ rq.pc = "enqueue"
        /\ queue' = IF fileLogs = <<>> \/ ~created THEN queue
                     ELSE Append(queue, fileLogs)
        /\ Becomes(r, Answer([rq EXCEPT !.tasks = Append(@, fileLogs),
                                         !.created = ~failed],
                              IF failed THEN "ServerError" ELSE "OK"))
        /\ UNCHANGED <<objects, genCtr, revocation, blacklist, atCache, blCache,
                       hist, config, authIn, authOut>>

\* GcDriver.addTaskToQueue, and the response: without logs it returns at
\* once; else it creates the task, and when that fails (created is FALSE)
\* the error is logged and the call returns as if it had not.
createTask(r, created) ==
    LET rq == req[r]
        fileLogs == IF rq.kind = "perform" THEN AllLogs(rq, 1) ELSE rq.units[1].logs
    IN  /\ rq.pc = "enqueue"
        /\ queue' = IF fileLogs = <<>> \/ ~created THEN queue
                     ELSE Append(queue, fileLogs)
        /\ Becomes(r, Answer([rq EXCEPT !.tasks = Append(@, fileLogs),
                                         !.created = fileLogs = <<>> \/ created],
                              "OK"))
        /\ UNCHANGED <<objects, genCtr, revocation, blacklist, atCache, blCache,
                       hist, config, authIn, authOut>>

\* GcDriver.addTaskToQueue over a task queue that takes every task.
addTaskToQueue(r) == createTask(r, TRUE)

\* ---- /revoke-all ----

\* A handleAuthBump that validates under the floor now in force.
BumpFloorInForce(address) == Max(revocation[address].timestamp, atCache[address])

\* The oldestValidTokenTimestamp handleAuthBump gives to validate: null.
BumpFloor(address) == 0

\* POST /revoke-all/:address, HubServer.handleAuthBump (the token is
\* validated without a floor) and AuthTimestampCache.setAuthTimestamp up to
\* its await: a larger cached timestamp ends the call at once.
RevokeAllRoute(r, address, tok, timestamp) ==
    LET rq0 == [Arrived(r, "revoke", "direct", address, tok, <<>>)
                   EXCEPT !.ts = timestamp]
        auth == validateAuthorizationHeader(tok, address, BumpFloor(address), config)
        cached == atCache[address]
    IN  /\ IsNext(r)
        /\ IF auth.err # ""
           THEN /\ req' = [req EXCEPT ![r] = Answer(rq0, auth.err)]
                /\ UNCHANGED hist
           ELSE IF cached > 0 /\ cached > timestamp
           THEN /\ req' = [req EXCEPT ![r] = Answer(rq0, "OK")]
                /\ hist' = [hist EXCEPT !.maxSet[address] = Max(@, timestamp)]
           ELSE /\ req' = [req EXCEPT ![r] = [rq0 EXCEPT !.pc = "set_write"]]
                /\ UNCHANGED hist
        /\ UNCHANGED <<objects, genCtr, revocation, blacklist, atCache, blCache,
                       opened, queue, config, authIn, authOut>>

\* The date of a call of performWriteAuthTimestamp: new Date().
Date(r) == r

nTries == 2

\* A variant that saves whatever timestamp it is given.
SaveAlways(oEy, timestamp, date) ==
    [exists |-> TRUE, timestamp |-> timestamp,
     createDate |-> IF oEy.exists THEN oEy.createDate ELSE date,
     updateDate |-> date, version |-> oEy.version + 1]

\* GcDriver.performWriteAuthTimestamp: what the transaction saves, given the
\* entity oEy it got: the larger timestamp under the old createDate, a new
\* entity when there was none, and nothing (oEy itself) otherwise.
Save(oEy, timestamp, date) ==
    IF oEy.exists
    THEN IF oEy.timestamp < timestamp
         THEN [oEy EXCEPT !.timestamp = timestamp, !.updateDate = date,
                          !.version = @ + 1]
         ELSE oEy
    ELSE [exists |-> TRUE, timestamp |-> timestamp, createDate |-> date,
          updateDate |-> date, version |-> oEy.version + 1]

\* A variant that gives up after the first failed try.
LastTryAlways(currentTry) == TRUE

\* GcDriver.performWriteAuthTimestamp: currentTry < nTries sleeps and tries
\* again, else the error is thrown.
LastTry(currentTry) == ~(currentTry < nTries)

\* The catch of a try: rollback, then the next try or the throw.
Rollback(rq) ==
    IF LastTry(rq.currentTry) THEN Answer(rq, "ServerError")
    ELSE [rq EXCEPT !.currentTry = @ + 1, !.pc = "set_write"]

\* GcDriver.performWriteAuthTimestamp: transaction.run and transaction.get
\* of a try; either may throw.
transactionGet(r, runs) ==
    LET rq == req[r]
    IN  /\ rq.pc = "set_write"
        /\ req' = [req EXCEPT ![r] =
                     IF runs THEN [rq EXCEPT !.oEy = revocation[rq.addr],
                                             !.pc = "set_commit"]
                     ELSE Rollback(rq)]
        /\ UNCHANGED <<objects, genCtr, revocation, blacklist, atCache, blCache,
                       opened, queue, hist, config, authIn, authOut>>

\* GcDriver.performWriteAuthTimestamp: the save and transaction.commit of a
\* try.  The datastore commits a write only when the entity is still the one
\* the transaction got; a commit may also fail for reasons of its own.
performWriteAuthTimestamp(r, commits) ==
    LET rq == req[r]
        entity == Save(rq.oEy, rq.ts, Date(r))
        writes == entity # rq.oEy
        ok == commits /\ (writes => revocation[rq.addr].version = rq.oEy.version)
    IN  /\ rq.pc = "set_commit"
        /\ IF ok
           THEN /\ revocation' = IF writes THEN [revocation EXCEPT ![rq.addr] = entity]
                                  ELSE revocation
                /\ req' = [req EXCEPT ![r].pc = "set_resume"]
           ELSE /\ req' = [req EXCEPT ![r] = Rollback(rq)]
                /\ UNCHANGED revocation
        /\ UNCHANGED <<objects, genCtr, blacklist, atCache, blCache, opened,
                       queue, hist, config, authIn, authOut>>

\* AuthTimestampCache.setAuthTimestamp after its await: the recheck of the
\* cache and the set.
setAuthTimestamp(r) ==
    LET rq == req[r]
        cached == atCache[rq.addr]
    IN  /\ rq.pc = "set_resume"
        /\ atCache' = IF cached > 0 /\ cached > rq.ts THEN atCache
                      ELSE [atCache EXCEPT ![rq.addr] = rq.ts]
        /\ req' = [req EXCEPT ![r] = Answer(rq, "OK")]
        /\ hist' = [hist EXCEPT !.maxSet[rq.addr] = Max(@, rq.ts),
                                !.maxCached[rq.addr] = Max(@, atCache'[rq.addr])]
        /\ UNCHANGED <<objects, genCtr, revocation, blacklist, blCache, opened,
                       queue, config, authIn, authOut>>

\* The LRU cache drops an entry: its ttl ran out, or the cache was full.
Evict(address) ==
    /\ atCache[address] # NoEntry
    /\ atCache' = [atCache EXCEPT ![address] = NoEntry]
    /\ UNCHANGED <<objects, genCtr, revocation, blacklist, blCache, opened,
                   req, queue, hist, config, authIn, authOut>>

\* ---- /list-files ----

\* A pageSize of the request body: absent, a number (n, or n plus a half), a
\* string of digits, or another string.
Absent == [kind |-> "absent", n |-> 0, half |-> FALSE]
Number(n) == [kind |-> "number", n |-> n, half |-> FALSE]
NumberAndHalf(n) == [kind |-> "number", n |-> n, half |-> TRUE]
Digits(n) == [kind |-> "digits", n |-> n, half |-> FALSE]
Text == [kind |-> "text", n |-> 0, half |-> FALSE]

NaN == [finite |-> FALSE, n |-> 0]

\* POST /list-files: requestBody.pageSize ? requestBody.pageSize : null.
BodyPageSize(v) ==
    IF v.kind = "absent" \/ (v.kind = "number" /\ v.n = 0 /\ ~v.half) THEN Absent ELSE v

\* parseInt(v, 10): the integer part of a number or of a string of digits.
parseInt(v) ==
    IF v.kind \in {"number", "digits"} THEN [finite |-> TRUE, n |-> v.n] ELSE NaN

\* A variant that hands every finite size to the store.
ClampPageSizeUncapped(pageSize, cfgPageSize) ==
    IF ~pageSize.finite THEN cfgPageSize ELSE pageSize.n

\* GcDriver.listAllObjects: the page size asked for, else the configured one.
ClampPageSize(pageSize, cfgPageSize) ==
    IF ~pageSize.finite \/ pageSize.n > cfgPageSize \/ pageSize.n <= 0
    THEN cfgPageSize ELSE pageSize.n

\* The names under the address, the prefix sliced off.
NamesOf(address) == {k[2] : k \in {q \in DOMAIN objects : q[1] = address}}

ListEntry(address, name, stat) ==
    [name |-> name, etag |-> IF stat THEN formatETagFromMD5(objects[Key(address, name)].body)
                             ELSE ""]

\* A variant that marks every empty page that has a continuation.
NullMarkerUnrestricted(isArchival, raw, kept, page) == kept = {} /\ page # 0

\* HubServer.handleListFiles: the null entry pushed when the filter emptied
\* a page that has a continuation (page 0 stands for null).
NullMarker(isArchival, raw, kept, page) ==
    isArchival /\ raw # {} /\ kept = {} /\ page # 0

\* HubServer.handleListFiles from the driver's answer on: files is the page
\* the store returned and nextPage its continuation token (0: none).
listFiles(r, files, nextPage, pageSize) ==
    LET rq == req[r]
        raw == {ListEntry(rq.addr, n, rq.stat) : n \in files}
        kept == IF rq.archival /\ raw # {}
                THEN {e \in raw : ~isHistoricalFile(e.name)} ELSE raw
        maxResults == ClampPageSize(parseInt(BodyPageSize(pageSize)), config.pageSize)
    IN  /\ rq.pc = "list"
        /\ files \subseteq NamesOf(rq.addr)
        /\ Cardinality(files) <= maxResults
        /\ nextPage = 0 => (files = NamesOf(rq.addr) \/ rq.list.page # 0)
        /\ req' = [req EXCEPT ![r] = Answer([rq EXCEPT !.list =
                      [entries |-> kept, raw |-> raw, page |-> nextPage,
                       driverPage |-> nextPage,
                       pageSize |-> pageSize, maxResults |-> maxResults,
                       nullEntry |-> NullMarker(rq.archival, raw, kept, nextPage)]],
                      "OK")]
        /\ UNCHANGED <<objects, genCtr, revocation, blacklist, atCache, blCache,
                       opened, queue, hist, config, authIn, authOut>>

\* ---- a bare call of the token check ----

NoOut == AuthErr("none", 0)

AuthCall ==
    /\ authOut = NoOut
    /\ authOut' = validateAuthorizationHeader(authIn.tok, authIn.address,
                                              authIn.floor, config)
    /\ UNCHANGED <<objects, genCtr, revocation, blacklist, atCache, blCache,
                   opened, req, queue, hist, config, authIn>>

(***************************************************************************)
(* Initial states and inputs.                                              *)
(***************************************************************************)
MaxConc == 2
PageSize == 2

Requests == 1..MaxReq

PX == <<"d", "/", "x">>
PY == <<"y">>

DefaultConfig == [useWhitelist |-> FALSE, requireCorrectHubUrl |-> TRUE,
                  pageSize |-> PageSize]

NoIn == [tok |-> GoodToken(""), address |-> "", floor |-> 0]

\* The hub after construction: caches empty, nothing in flight.  The bucket
\* holds what earlier runs left in it.
InitHubWith(objs, revoked, types) ==
    /\ objects = objs
    /\ genCtr = 10
    /\ revocation = [a \in Addresses |-> StoredEntity(revoked[a])]
    /\ blacklist = types
    /\ atCache = [a \in Addresses |-> NoEntry]
    /\ blCache = [a \in Addresses |-> NoEntry]
    /\ opened = {}
    /\ req = [r \in 1..MaxReq |-> Idle]
    /\ queue = <<>>
    /\ hist = [stored |-> {}, maxSet |-> [a \in Addresses |-> 0],
               maxCached |-> [a \in Addresses |-> 0]]

\* The hub over a datastore without BLACKLIST records.
InitHub(objs, revoked) == InitHubWith(objs, revoked, [a \in Addresses |-> 0])

OneObject == (Key("A", PX) :> [body |-> 1, gen |-> 1])

NotRevoked == [a \in Addresses |-> 0]

Scope(type, domain) == [scope |-> type, domain |-> domain]

PlainToken == GoodToken("kA")

ArchivalToken ==
    [GoodToken("kA") EXCEPT !.scopes = <<Scope("putFileArchivalPrefix", <<"d", "/">>)>>]

\* ---- the archival hub: every token is archival-restricted ----

ArchivalLeaves ==
    {<<[op |-> "PUT", path |-> PX, doIgnoreDoesNotExistError |-> FALSE],
       [op |-> "PUT", path |-> PX, doIgnoreDoesNotExistError |-> FALSE]>>,
     <<[op |-> "DELETE", path |-> PX, doIgnoreDoesNotExistError |-> TRUE]>>}

NoAuthCall == authIn = NoIn /\ authOut = NoOut

InitArchival ==
    /\ InitHub(OneObject, NotRevoked)
    /\ config = DefaultConfig
    /\ NoAuthCall

Steps(r) ==
    \/ ReadAuthTimestamp(r)
    \/ getAuthTimestamp(r)
    \/ addTaskToQueue(r)
    \/ \E i \in 1..2 :
          \/ RenameStat(r, i)
          \/ \E code \in {404, 412} : RenameMove(r, i, code)
          \/ WriteStat(r, i)
          \/ WriteSave(r, i)

NextArchival ==
    \E r \in 1..MaxConc :
          \/ StoreRoute(r, "A", PX, ArchivalToken, "", "")
          \/ StoreRouteMutex(r, "A", PX, ArchivalToken, "", "")
          \/ DeleteRoute(r, "A", PX, ArchivalToken, "", "")
          \/ \E sq \in BOOLEAN, leaves \in ArchivalLeaves :
                PerformFilesRoute(r, "A", ArchivalToken, sq, leaves)
          \/ Steps(r)

SpecArchival == InitArchival /\ [][NextArchival]_vars

\* ---- the hub under every kind of token ----

ScopedToken ==
    [GoodToken("kA") EXCEPT !.scopes = <<Scope("putFilePrefix", <<"d", "/">>),
                                         Scope("deleteFile", PY)>>]

StaleToken == [GoodToken("kA") EXCEPT !.iat = 0]

AssociatedToken(asso) == [GoodToken("kA") EXCEPT !.hasAsso = TRUE, !.asso = asso]

\* Tokens that pass verification for bucket A while no floor is set.
ValidTokens ==
    {ArchivalToken, ScopedToken, StaleToken,
     AssociatedToken([GoodAsso("kA") EXCEPT !.iat = 0]),
     AssociatedToken([GoodAsso("kA") EXCEPT !.iss = "kB"])}

\* Tokens with one thing wrong.
BrokenTokens ==
    {[GoodToken("kA") EXCEPT !.sigOk = FALSE],
     [GoodToken("kA") EXCEPT !.challenge = "bad"],
     [GoodToken("kA") EXCEPT !.exp = "past"],
     [GoodToken("kA") EXCEPT !.hubUrl = "https://other"],
     [GoodToken("kA") EXCEPT !.header = "v2", !.iat = 0],
     [GoodToken("kB") EXCEPT !.iat = 0],
     AssociatedToken([GoodAsso("kA") EXCEPT !.sigOk = FALSE]),
     [AssociatedToken([GoodAsso("kA") EXCEPT !.iat = 0]) EXCEPT !.sigOk = FALSE]}

\* The (address, token) pairs of the requests.
Callers ==
    {<<"A", t>> : t \in ValidTokens \cup BrokenTokens} \cup {<<"B", GoodToken("kB")>>}

\* The callers of /perform-files.
BatchCallers ==
    {<<"A", ArchivalToken>>, <<"A", ScopedToken>>, <<"A", StaleToken>>,
     <<"A", [GoodToken("kA") EXCEPT !.sigOk = FALSE]>>}

Paths == {PX, PY}

Leaves ==
    {<<[op |-> "PUT", path |-> PX, doIgnoreDoesNotExistError |-> FALSE],
       [op |-> "PUT", path |-> PX, doIgnoreDoesNotExistError |-> FALSE]>>,
     <<[op |-> "PUT", path |-> PY, doIgnoreDoesNotExistError |-> FALSE],
       [op |-> "DELETE", path |-> PX, doIgnoreDoesNotExistError |-> TRUE]>>}

NoObjects == [k \in {} |-> [body |-> 0, gen |-> 0]]

\* ---- the hub under concurrent mutations of one path ----

Init ==
    /\ InitHub(OneObject, NotRevoked)
    /\ config = DefaultConfig
    /\ NoAuthCall

Next ==
    \E r \in 1..MaxConc :
          \/ \E tok \in {PlainToken, ArchivalToken} :
                \/ StoreRoute(r, "A", PX, tok, "", "")
                \/ StoreRouteMutex(r, "A", PX, tok, "", "")
                \/ DeleteRoute(r, "A", PX, tok, "", "")
                \/ DeleteRouteMutex(r, "A", PX, tok, "", "")
                \/ \E sq \in BOOLEAN, leaves \in Leaves :
                      PerformFilesRoute(r, "A", tok, sq, leaves)
          \/ Steps(r)
          \/ \E i \in 1..2 : DeleteStat(r, i) \/ DeleteObject(r, i)

Spec == Init /\ [][Next]_vars

\* ---- the gate: one request at a time, under every kind of token ----

Quiet == \A q \in 1..MaxReq : req[q].pc \in {"idle", "done"}

InitGate ==
    /\ \E revoked \in {NotRevoked, [NotRevoked EXCEPT !["A"] = 1]} :
          InitHub(OneObject, revoked)
    /\ config \in {DefaultConfig, [DefaultConfig EXCEPT !.useWhitelist = TRUE]}
    /\ NoAuthCall

NextGate ==
    \E r \in 1..MaxConc :
          \/ \E c \in Callers, path \in Paths :
                \/ Quiet /\ StoreRoute(r, c[1], path, c[2], "", "")
                \/ Quiet /\ DeleteRoute(r, c[1], path, c[2], "", "")
          \/ \E c \in BatchCallers, sq \in BOOLEAN, leaves \in Leaves :
                Quiet /\ PerformFilesRoute(r, c[1], c[2], sq, leaves)
          \/ Steps(r)
          \/ \E i \in 1..2 : DeleteStat(r, i) \/ DeleteObject(r, i)

SpecGate == InitGate /\ [][NextGate]_vars

\* ---- the token check on its own, over every shape of token ----

AssoInputs ==
    {NoAsso, GoodAsso("kA"), GoodAsso("kB"),
     [GoodAsso("kA") EXCEPT !.iat = 0],
     [GoodAsso("kA") EXCEPT !.iatKind = "nan", !.iat = 0],
     [GoodAsso("kA") EXCEPT !.iatKind = "absent", !.iat = 0],
     [GoodAsso("kB") EXCEPT !.exp = "none", !.iat = 0]}

TokenInputs ==
    {[header |-> h, iss |-> k, iatKind |-> ik, iat |-> t, hubUrl |-> u,
      scopes |-> sc, sigOk |-> so, challenge |-> ch, exp |-> e,
      hasAsso |-> a # NoAsso, asso |-> a] :
        h \in {"v1", "v2"}, k \in {"", "kA", "kB"},
        ik \in {"absent", "nan", "num"}, t \in 0..MaxTs,
        u \in {"https://hub/", "https://other"},
        sc \in {<<>>, <<Scope("readFile", PX)>>},
        so \in BOOLEAN, ch \in {"ok", "bad"}, e \in {"none", "past"},
        a \in AssoInputs}

InitAuth ==
    /\ InitHub(OneObject, NotRevoked)
    /\ config \in {DefaultConfig, [DefaultConfig EXCEPT !.useWhitelist = TRUE]}
    /\ authIn \in {[tok |-> tok, address |-> address, floor |-> floor] :
                      tok \in {t \in TokenInputs : t.iatKind = "num" \/ t.iat = 0},
                      address \in Addresses, floor \in 0..MaxTs}
    /\ authOut = NoOut

NextAuth == AuthCall

SpecAuth == InitAuth /\ [][NextAuth]_vars

\* ---- revocation: /revoke-all, the cache, and the requests it gates ----

IssuedAt(t) == [PlainToken EXCEPT !.iat = t]

InitRevocation ==
    /\ InitHub(OneObject, NotRevoked)
    /\ config = DefaultConfig
    /\ NoAuthCall

NextRevocation ==
    \/ \E r \in Requests :
          \/ \E t \in 1..MaxTs : RevokeAllRoute(r, "A", PlainToken, t)
          \/ \E runs \in BOOLEAN : transactionGet(r, runs)
          \/ \E commits \in BOOLEAN : performWriteAuthTimestamp(r, commits)
          \/ setAuthTimestamp(r)
          \/ \E t \in 1..MaxTs : StoreRoute(r, "A", PX, IssuedAt(t), "", "")
          \/ ReadAuthTimestamp(r)
          \/ getAuthTimestamp(r)
          \/ WriteStat(r, 1)
          \/ WriteSave(r, 1)
          \/ addTaskToQueue(r)
    \/ Evict("A")

SpecRevocation == InitRevocation /\ [][NextRevocation]_vars

\* ---- listing a bucket that holds historical files ----

HistoryBucket ==
    (Key("A", PX) :> [body |-> 1, gen |-> 1])
    @@ (Key("A", getHistoricalFileName(PX, Stamp(0, 1))) :> [body |-> 2, gen |-> 2])
    @@ (Key("A", <<".history.", "0", ".", "y">>) :> [body |-> 3, gen |-> 3])
    @@ (Key("A", <<".history.", "/", "z">>) :> [body |-> 4, gen |-> 4])
    @@ (Key("B", PY) :> [body |-> 5, gen |-> 5])

\* The page sizes a client may send: none, zero, negative, within the range,
\* the maximum, above it, fractional, as a string, and not a number.
PageSizes ==
    {Absent, Text, Digits(1), NumberAndHalf(0), NumberAndHalf(1)}
    \cup {Number(n) : n \in -1..(PageSize + 1)}

InitList ==
    /\ InitHub(HistoryBucket, NotRevoked)
    /\ config = DefaultConfig
    /\ NoAuthCall

NextList ==
    \E r \in 1..MaxConc :
        \/ \E tok \in {PlainToken, ArchivalToken}, stat \in BOOLEAN, page \in 0..1 :
              ListFilesRoute(r, "A", tok, stat, page)
        \/ StoreRoute(r, "A", PX, ArchivalToken, "", "")
        \/ ReadAuthTimestamp(r)
        \/ getAuthTimestamp(r)
        \/ \E files \in SUBSET NamesOf("A"), nextPage \in 0..1,
              pageSize \in {Number(0), Number(1), Number(PageSize + 1)} :
              listFiles(r, files, nextPage, pageSize)
        \/ RenameStat(r, 1)
        \/ \E code \in {404, 412} : RenameMove(r, 1, code)
        \/ WriteStat(r, 1)
        \/ WriteSave(r, 1)
        \/ addTaskToQueue(r)

SpecList == InitList /\ [][NextList]_vars

\* ---- one listing, asked for with every kind of page size ----

NextPage ==
    \/ \E tok \in {PlainToken, ArchivalToken}, stat \in BOOLEAN, page \in 0..1 :
          ListFilesRoute(1, "A", tok, stat, page)
    \/ ReadAuthTimestamp(1)
    \/ getAuthTimestamp(1)
    \/ \E files \in SUBSET NamesOf("A"), nextPage \in 0..1, pageSize \in PageSizes :
          listFiles(1, files, nextPage, pageSize)

SpecPage == InitList /\ [][NextPage]_vars

\* ---- the driver's conditional calls: /store and /delete race on one key ----

\* The hub over a bucket that holds A/d/x, or nothing.
InitStore ==
    /\ \E objs \in {OneObject, NoObjects} : InitHub(objs, NotRevoked)
    /\ config = DefaultConfig
    /\ NoAuthCall

NextRace ==
    \E r \in 1..MaxConc :
          \/ \E tok \in {PlainToken, ArchivalToken} :
                \/ StoreRoute(r, "A", PX, tok, "", "")
                \/ DeleteRoute(r, "A", PX, tok, "", "")
          \/ Steps(r)
          \/ DeleteStat(r, 1)
          \/ DeleteObject(r, 1)

SpecRace == InitStore /\ [][NextRace]_vars

\* ---- the guarded routes: every mutation goes through tryAcquire ----

NextMutex ==
    \E r \in Requests :
        \/ \E path \in {PX, PY}, ifMatchTag \in {"", "9"} :
              StoreRouteMutex(r, "A", path, PlainToken, ifMatchTag, "")
        \/ StoreRouteMutex(r, "A", PX, ArchivalToken, "", "")
        \/ DeleteRouteMutex(r, "A", PX, PlainToken, "", "")
        \/ \E chunks \in {<<1>>, <<1, maxFileUploadSizeBytes>>} :
              StoreUploadMutex(r, "A", PX, PlainToken, "num", 1, chunks)
        \/ \E path \in {PX, PY} : tryAcquireThrowing(r, "A", path)
        \/ Steps(r)
        \/ StreamChunk(r, 1)
        \/ DeleteStat(r, 1)
        \/ DeleteObject(r, 1)

SpecMutex == InitStore /\ [][NextMutex]_vars

\* ---- If-Match and If-None-Match: one request at a time ----

\* The pairs <<If-Match, If-None-Match>>; "" is an absent header, "1" the
\* etag of the object the bucket starts with, "9" the etag of no object.
MatchHeaders ==
    {<<"", "">>, <<"*", "">>, <<"1", "">>, <<"9", "">>,
     <<"", "*">>, <<"", "1">>, <<"1", "*">>}

NextCond ==
    \E r \in 1..MaxConc :
          \/ \E tok \in {PlainToken, ArchivalToken}, h \in MatchHeaders :
                \/ Quiet /\ StoreRoute(r, "A", PX, tok, h[1], h[2])
                \/ Quiet /\ DeleteRoute(r, "A", PX, tok, h[1], h[2])
          \/ Steps(r)
          \/ DeleteStat(r, 1)
          \/ DeleteObject(r, 1)

SpecCond == InitStore /\ [][NextCond]_vars

\* ---- uploads: Content-Length and the size of the body ----

\* Content-Length as parseInt sees it.
ContentLengths ==
    {<<"absent", 0>>, <<"nan", 0>>, <<"num", 0>>, <<"num", 1>>,
     <<"num", maxFileUploadSizeBytes>>, <<"num", maxFileUploadSizeBytes + 1>>}

\* The chunk lengths of a body: of 1 byte, of the maximum, of more.
Bodies ==
    {<<1>>, <<1, maxFileUploadSizeBytes - 1>>, <<maxFileUploadSizeBytes, 1>>,
     <<1, 1, maxFileUploadSizeBytes>>}

\* One upload, from its arrival to its answer.
NextUpload ==
    \/ \E tok \in {PlainToken, ArchivalToken}, c \in ContentLengths,
          chunks \in Bodies :
          StoreUpload(1, "A", PX, tok, c[1], c[2], chunks)
    \/ StreamChunk(1, 1)
    \/ Steps(1)

SpecUpload == InitStore /\ [][NextUpload]_vars

\* ---- the blacklist: one request at a time, every handler ----

\* The types a BLACKLIST record can hold: the three in use and another.
BlacklistTypes == 0..3

InitBlacklist ==
    /\ \E t \in BlacklistTypes :
          InitHubWith(OneObject, NotRevoked, [a \in Addresses |-> IF a = "A" THEN t ELSE 0])
    /\ config = DefaultConfig
    /\ NoAuthCall

NextBlacklist ==
    \E r \in 1..MaxConc :
          \/ \E path \in Paths :
                \/ Quiet /\ StoreRoute(r, "A", path, PlainToken, "", "")
                \/ Quiet /\ DeleteRoute(r, "A", path, PlainToken, "", "")
          \/ \E sq \in BOOLEAN, leaves \in Leaves :
                Quiet /\ PerformFilesRoute(r, "A", PlainToken, sq, leaves)
          \/ \E stat \in BOOLEAN : Quiet /\ ListFilesRoute(r, "A", PlainToken, stat, 0)
          \/ \E files \in SUBSET NamesOf("A"), nextPage \in 0..1 :
                listFiles(r, files, nextPage, Absent)
          \/ ReadAuthTimestamp(r)
          \/ getAuthTimestamp(r)
          \/ addTaskToQueue(r)
          \/ \E i \in 1..2 : \/ WriteStat(r, i) \/ WriteSave(r, i)
                               \/ DeleteStat(r, i) \/ DeleteObject(r, i)

SpecBlacklist == InitBlacklist /\ [][NextBlacklist]_vars

\* ---- two buckets, paths with "..": one request at a time ----

\* d/../../B/y: the name of B's object, were ".." resolved.
PBad == <<"d", "/", "..", "/", "..", "/", "B", "/", "y">>

PathLeaves ==
    {<<[op |-> "PUT", path |-> PBad, doIgnoreDoesNotExistError |-> FALSE],
       [op |-> "PUT", path |-> PX, doIgnoreDoesNotExistError |-> FALSE]>>,
     <<[op |-> "DELETE", path |-> PBad, doIgnoreDoesNotExistError |-> TRUE],
       [op |-> "DELETE", path |-> PX, doIgnoreDoesNotExistError |-> FALSE]>>}

TwoBuckets == OneObject @@ (Key("B", PY) :> [body |-> 5, gen |-> 5])

\* The holder of kA calls its own bucket and bucket B.
PathCallers == {<<"A", PlainToken>>, <<"A", ArchivalToken>>, <<"B", PlainToken>>}

InitPath ==
    /\ InitHub(TwoBuckets, NotRevoked)
    /\ config = DefaultConfig
    /\ NoAuthCall

NextPath ==
    \E r \in 1..MaxConc :
          \/ \E c \in PathCallers, path \in {PX, PBad} :
                \/ Quiet /\ StoreRoute(r, c[1], path, c[2], "", "")
                \/ Quiet /\ DeleteRoute(r, c[1], path, c[2], "", "")
          \/ \E c \in PathCallers, sq \in BOOLEAN, leaves \in PathLeaves :
                Quiet /\ PerformFilesRoute(r, c[1], c[2], sq, leaves)
          \/ \E c \in PathCallers, stat \in BOOLEAN :
                Quiet /\ ListFilesRoute(r, c[1], c[2], stat, 0)
          \/ \E files \in SUBSET NamesOf(req[r].addr), nextPage \in 0..1 :
                listFiles(r, files, nextPage, Absent)
          \/ Steps(r)
          \/ \E i \in 1..2 : DeleteStat(r, i) \/ DeleteObject(r, i)

SpecPath == InitPath /\ [][NextPath]_vars

\* ---- batches: trees of leaves ----

Leaf(op, path) == [op |-> op, path |-> path, doIgnoreDoesNotExistError |-> FALSE]

\* The leaf as one of the values of child number child of the root, a node
\* with isSequential true (seq) or false (par).
Within(leaf, child, inner) == leaf @@ [child |-> child, inner |-> inner]

\* The path of the n-th of many files; none of them is in the bucket.
PN(n) == <<"n", ToString(n)>>

\* More leaves than one window holds.
ManyLeaves == [n \in 1..(nItems + 1) |-> Leaf("DELETE", PN(n))]

\* The request bodies: three PUTs; a parallel node, a sequential node and a
\* leaf; leaves that fail each in its way, then one that does not.
Batches ==
    {<<Leaf("PUT", PX), Leaf("PUT", PY), Leaf("PUT", PX)>>,
     <<Within(Leaf("PUT", PY), 1, "par"), Within(Leaf("PUT", PX), 1, "par"),
       Within(Leaf("DELETE", PY), 2, "seq"), Within(Leaf("PUT", PX), 2, "seq"),
       Within(Leaf("DELETE", PY), 3, "leaf")>>,
     <<Leaf("PUT", PX) @@ [content |-> "other"],
       Leaf("PUT", PX) @@ [bytes |-> maxFileUploadSizeBytes + 1],
       Leaf("COPY", PX), Leaf("DELETE", PY),
       Leaf("PUT", PX) @@ [content |-> "object", bytes |-> maxFileUploadSizeBytes]>>}

\* Request bodies of more leaves than a window holds, under the root and
\* under a child of it.
LargeBatches ==
    {ManyLeaves, [n \in 1..(nItems + 1) |-> Within(ManyLeaves[n], 1, "par")]}

\* The hub over a bucket that holds A/d/x, or nothing, for an address that
\* is free to write or blacklisted for PUT.
InitBatch ==
    /\ \E objs \in {OneObject, NoObjects}, type \in {0, 2} :
          InitHubWith(objs, NotRevoked, [a \in Addresses |-> IF a = "A" THEN type ELSE 0])
    /\ config = DefaultConfig
    /\ NoAuthCall

\* One request, from its arrival to its answer.
NextBatch ==
    \/ \E tok \in {PlainToken, ScopedToken}, sq \in BOOLEAN, leaves \in Batches :
          PerformFilesRoute(1, "A", tok, sq, leaves)
    \/ \E sq \in BOOLEAN, leaves \in LargeBatches :
          PerformFilesRoute(1, "A", PlainToken, sq, leaves)
    \/ StoreRoute(1, "A", PX, PlainToken, "", "")
    \/ DeleteRoute(1, "A", PX, PlainToken, "", "")
    \/ ReadAuthTimestamp(1)
    \/ getAuthTimestamp(1)
    \/ \E created \in BOOLEAN : createTask(1, created)
    \/ \E i \in 1..(nItems + 1) :
          \/ WriteStat(1, i) \/ WriteSave(1, i)
          \/ DeleteStat(1, i) \/ DeleteObject(1, i)

SpecBatch == InitBatch /\ [][NextBatch]_vars

\* ---- /revoke-all under a floor already set: one request at a time ----

\* Tokens for bucket A of every age, without iat, and with a bad signature.
BumpTokens ==
    {IssuedAt(t) : t \in 0..MaxTs}
    \cup {[PlainToken EXCEPT !.iatKind = "absent", !.iat = 0],
          [IssuedAt(0) EXCEPT !.sigOk = FALSE], GoodToken("kB")}

InitBump ==
    /\ \E floor \in 0..1 : InitHub(OneObject, [NotRevoked EXCEPT !["A"] = floor])
    /\ config = DefaultConfig
    /\ NoAuthCall

NextBump ==
    \E r \in Requests :
        \/ \E tok \in BumpTokens, t \in 1..MaxTs :
              Quiet /\ RevokeAllRoute(r, "A", tok, t)
        \/ \E runs \in BOOLEAN : transactionGet(r, runs)
        \/ \E commits \in BOOLEAN : performWriteAuthTimestamp(r, commits)
        \/ setAuthTimestamp(r)
        \/ \E tok \in BumpTokens : Quiet /\ StoreRoute(r, "A", PX, tok, "", "")
        \/ ReadAuthTimestamp(r)
        \/ getAuthTimestamp(r)
        \/ WriteStat(r, 1)
        \/ WriteSave(r, 1)
        \/ addTaskToQueue(r)

SpecBump == InitBump /\ [][NextBump]_vars

\* ---- one /store that may fail at every stage ----

NextFail ==
    \/ \E tok \in {PlainToken, ArchivalToken}, h \in MatchHeaders,
          contentType \in {24, 1024, 1025} :
          StoreTyped(1, "A", PX, tok, h[1], h[2], contentType)
    \/ \E tok \in {PlainToken, ArchivalToken},
          chunks \in {<<1>>, <<1, maxFileUploadSizeBytes>>} :
          StoreUpload(1, "A", PX, tok, "num", 1, chunks)
    \/ Steps(1)
    \/ StreamChunk(1, 1)
    \/ WriteSaveFails(1, 1)

SpecFail == InitStore /\ [][NextFail]_vars

\* ---- size accounting: writes, deletes and archival renames of an empty bucket ----

InitEmpty ==
    /\ InitHub(NoObjects, NotRevoked)
    /\ config = DefaultConfig
    /\ NoAuthCall

NextSize ==
    \E r \in Requests :
          \/ \E tok \in {PlainToken, ArchivalToken} :
                \/ StoreRoute(r, "A", PX, tok, "", "")
                \/ DeleteRoute(r, "A", PX, tok, "", "")
          \/ Steps(r)
          \/ DeleteStat(r, 1)
          \/ DeleteObject(r, 1)

SpecSize == InitEmpty /\ [][NextSize]_vars

\* ---- scopes: one mutation under every kind of scope set ----

PZ == <<"e", "/", "z">>

Scoped(scopes) == [GoodToken("kA") EXCEPT !.scopes = scopes]

\* Scope sets: none; write, delete and archival ones by prefix and by exact
\* path; mixed ones; and prefixes that are the empty string.
ScopeTokens ==
    {PlainToken, ScopedToken, ArchivalToken,
     Scoped(<<Scope("putFile", PX), Scope("deleteFilePrefix", <<"d", "/">>)>>),
     Scoped(<<Scope("putFileArchival", PX), Scope("putFilePrefix", <<"e">>)>>),
     Scoped(<<Scope("putFileArchivalPrefix", <<"d">>), Scope("putFile", PX),
              Scope("deleteFile", PZ)>>),
     Scoped(<<Scope("putFilePrefix", <<>>)>>),
     Scoped(<<Scope("deleteFilePrefix", <<>>), Scope("deleteFilePrefix", <<"d", "/">>)>>)}

ScopeLeaves ==
    {<<Leaf(op1, p1), Leaf(op2, p2)>> :
        op1 \in {"PUT"}, op2 \in {"DELETE"}, p1 \in {PX, PZ}, p2 \in {PX, PY}}

NextScope ==
    \/ \E tok \in ScopeTokens, path \in {PX, PY, PZ} :
          \/ StoreRoute(1, "A", path, tok, "", "")
          \/ DeleteRoute(1, "A", path, tok, "", "")
    \/ \E tok \in ScopeTokens, leaves \in ScopeLeaves :
          PerformFilesRoute(1, "A", tok, FALSE, leaves)
    \/ Steps(1)
    \/ \E i \in 1..2 : DeleteStat(1, i) \/ DeleteObject(1, i)

SpecScope == InitStore /\ [][NextScope]_vars

(***************************************************************************)
(* Properties.                                                             *)
(***************************************************************************)
Units(r) == 1..Len(req[r].units)

\* C1: of the /store requests on one (bucket, path) that are in flight
\* together, at most one reaches performWrite, and one that arrives while
\* another is in flight is answered 409 ConflictError.
C1_OneStorePerEndpoint ==
    \A r1, r2 \in Requests :
        (/\ r1 # r2
         /\ req[r1].kind = "store" /\ req[r2].kind = "store"
         /\ Endpoint(req[r1]) = Endpoint(req[r2])
         /\ req[r1].pc # "done")
        => /\ ~(/\ "performWrite" \in req[r1].units[1].invoked
                /\ "performWrite" \in req[r2].units[1].invoked
                /\ req[r2].pc # "done")
           /\ (r1 < r2 /\ req[r2].pc = "done") => req[r2].resp = "ConflictError"

\* C2: no two mutations of one key are in progress at once, whichever
\* endpoint they come from, two leaves of one perform-files request included.
C2_OneMutationPerKey ==
    \A r1, r2 \in Requests : \A i1 \in Units(r1), i2 \in Units(r2) :
        (/\ <<r1, i1>> # <<r2, i2>>
         /\ InDriver(req[r1].units[i1]) /\ InDriver(req[r2].units[i2]))
        => UnitKey(r1, i1) # UnitKey(r2, i2)

\* What the token of request r lacks, by its own fields: signature, issuer,
\* challenge, expiry, hub URL, whitelist on the effective signer.
FailsVerification(rq) ==
    LET tok == rq.tok
        signer == IF tok.hasAsso THEN ecPairToAddress(tok.asso.iss) ELSE rq.addr
    IN  \/ ~tok.sigOk
        \/ tok.hasAsso /\ ~tok.asso.sigOk
        \/ ecPairToAddress(tok.iss) # rq.addr
        \/ tok.challenge # "ok"
        \/ tok.exp = "past"
        \/ config.requireCorrectHubUrl /\ tok.hubUrl \notin {"https://hub", "https://hub/"}
        \/ config.useWhitelist /\ signer \notin Whitelist

\* The scopes of the two types limit the token, and none of them covers the path.
Outside(scopes, path, exactType, prefixType) ==
    /\ \E i \in 1..Len(scopes) : scopes[i].scope \in {exactType, prefixType}
    /\ ~\E i \in 1..Len(scopes) :
          \/ scopes[i].scope = prefixType /\ StartsWith(path, scopes[i].domain)
          \/ scopes[i].scope = exactType /\ path = scopes[i].domain

OutOfScope(rq, u) ==
    \/ Outside(rq.tok.scopes, u.path, "putFileArchival", "putFileArchivalPrefix")
    \/ u.op = "PUT" /\ Outside(rq.tok.scopes, u.path, "putFile", "putFilePrefix")
    \/ u.op = "DELETE" /\ Outside(rq.tok.scopes, u.path, "deleteFile", "deleteFilePrefix")

\* C5: a request whose token fails verification, or whose path is outside
\* the token's write, delete or write-archival scopes, never has
\* performWrite, performDelete or performRename invoked for that path.
C5_NoDriverCallUnlessAuthorized ==
    \A r \in Requests : \A i \in Units(r) :
        (FailsVerification(req[r]) \/ OutOfScope(req[r], req[r].units[i]))
        => req[r].units[i].invoked = {}

\* A request with a forged signature and one with a path outside its scopes
\* were both answered, and an authorized one went through to the driver.
C5_Reached ==
    \E r1, r2 \in Requests :
        /\ req[r1].pc = "done" /\ ~req[r1].tok.sigOk
        /\ req[r1].resp = "ValidationError"
        /\ req[r2].pc = "done" /\ ~FailsVerification(req[r2])
        /\ req[r2].kind = "store"
        /\ OutOfScope(req[r2], req[r2].units[1])
        /\ req[r2].resp = "ValidationError"

\* The token is older than the floor the request was checked under.
OuterStale(rq) == rq.floor > 0 /\ rq.tok.iatKind = "num" /\ rq.tok.iat < rq.floor

AssoStale(rq) ==
    rq.floor > 0 /\ rq.tok.hasAsso /\ rq.tok.asso.iatKind = "num"
    /\ rq.tok.asso.iat < rq.floor

TimestampError(rq) ==
    rq.resp = "AuthTokenTimestampValidationError" /\ rq.errFloor = rq.floor

\* The outer token passes every check of its own.
OuterSound(rq) ==
    /\ rq.tok.header = "v1" /\ rq.tok.iss # ""
    /\ ecPairToAddress(rq.tok.iss) = rq.addr
    /\ ~config.requireCorrectHubUrl \/ rq.tok.hubUrl \in {"https://hub", "https://hub/"}
    /\ rq.tok.sigOk /\ rq.tok.challenge = "ok" /\ rq.tok.exp # "past"

C8_StoredBodiesKept ==
    \A b \in hist.stored : \E k \in DOMAIN objects : objects[k].body = b

Directory(path) == SubSeq(path, 1, LastSlash(path))

\* C9: when the save of an archival /store commits, the rename was attempted
\* before it and the canonical name now holds the new body; if the rename
\* moved an object, its body is under a .history. name of the same
\* directory; if the rename found nothing, this is a first write: the save
\* replaces no object.
C9_RenameThenWrite ==
    [][\A r \in Requests :
         (/\ req[r].kind = "store" /\ req[r].archival
          /\ InFlight(r, 1, "w_save") /\ req'[r].units[1].pc = "ok")
         => LET u == req[r].units[1]
                k == UnitKey(r, 1)
                h == Key(req[r].addr, u.hist)
            IN  /\ "performRename" \in u.invoked
                /\ objects'[k].body = u.body
                /\ IF u.renamed
                   THEN /\ h \in DOMAIN objects' /\ objects'[h].body = u.prev
                        /\ isHistoricalFile(u.hist)
                        /\ Directory(u.hist) = Directory(u.path)
                   ELSE ~Exists(k)]_vars

\* The public key whose address the bucket is.
KeyOfBucket(address) == IF address = "A" THEN "kA" ELSE "kB"

Called == authOut # NoOut

FailsIatFirst(in) ==
    /\ in.tok.header = "v1" /\ in.tok.iss # ""
    /\ in.floor > 0 /\ in.tok.iatKind # "absent"
    /\ ~(in.tok.iatKind = "num" /\ in.tok.iat >= in.floor)

PastFloor(rq) == rq.kind \notin {"none", "revoke"} /\ rq.pc \notin {"auth_read", "auth_resume"}

\* C3: once a /revoke-all with timestamp T has completed, every later
\* request whose token was issued before T is answered with
\* AuthTokenTimestampValidationError, whatever else happened in between:
\* other requests, later /revoke-all calls with smaller timestamps, cache
\* evictions.
C3_RevokedTokensRejected ==
    \A r \in Requests :
        (PastFloor(req[r]) /\ req[r].tok.iatKind = "num" /\ req[r].tok.iat < req[r].need)
        => /\ req[r].pc = "done"
           /\ req[r].resp = "AuthTokenTimestampValidationError"

\* C4: getAuthTimestamp returns at least the largest timestamp of the
\* setAuthTimestamp calls that had completed when it was called.
C4_FloorAtLeastMaxSet ==
    \A r \in Requests : PastFloor(req[r]) => req[r].floor >= req[r].need

\* C10: a listing made under an archival-restricted token, with or without
\* stat, holds no entry whose basename starts with ".history.".
C10_NoHistoricalEntries ==
    \A r \in Requests :
        (req[r].kind = "list" /\ req[r].pc = "done"
         /\ isArchivalRestricted(req[r].tok.scopes))
        => \A e \in req[r].list.entries :
              ~StartsWith(getFileName(e.name), <<".history.">>)

\* A stat listing under an archival token whose page held a historical file
\* in a directory and a canonical file: only the canonical one was returned.
C10_Reached ==
    \E r \in Requests :
        /\ req[r].kind = "list" /\ req[r].pc = "done" /\ req[r].stat
        /\ isArchivalRestricted(req[r].tok.scopes)
        /\ {e.name : e \in req[r].list.raw} = {PX, getHistoricalFileName(PX, Stamp(0, 1))}
        /\ {e.name : e \in req[r].list.entries} = {PX}

Served(rq) ==
    \/ \E i \in 1..Len(rq.units) : rq.units[i].invoked # {}
    \/ rq.kind = "list" /\ (rq.pc = "list" \/ rq.resp = "OK")

\* C12: a request is let through to the driver only for the bucket whose
\* address is that of its token's issuer, and every key it then writes,
\* deletes, moves or lists is Key(that address, ...): while the holder of kA
\* is the only caller, bucket B's keys and objects stay as they were, and no
\* listing answered to it holds the name or the etag of B's object.
C12_NamespaceIsolation ==
    /\ \A r \in Requests :
          /\ Served(req[r]) => req[r].addr = ecPairToAddress(req[r].tok.iss)
          /\ \A e \in req[r].list.raw :
                e.name # PY /\ e.etag # formatETagFromMD5(TwoBuckets[Key("B", PY)].body)
    /\ \A k \in DOMAIN objects \cup DOMAIN TwoBuckets :
          k[1] = "B" => /\ k \in DOMAIN objects /\ k \in DOMAIN TwoBuckets
                        /\ objects[k] = TwoBuckets[k]

\* A /store of kA's holder into bucket B was refused, and a stat listing of
\* bucket A was answered with A's object.
C12_Reached ==
    \E r1, r2 \in Requests :
        /\ req[r1].kind = "store" /\ req[r1].addr = "B" /\ req[r1].tok.iss = "kA"
        /\ req[r1].pc = "done" /\ req[r1].resp = "ValidationError"
        /\ req[r2].kind = "list" /\ req[r2].addr = "A" /\ req[r2].stat
        /\ req[r2].resp = "OK" /\ {e.name : e \in req[r2].list.raw} = {PX}

\* The generation now live at a key; 0 when there is no object.
LiveGeneration(k) == IF Exists(k) THEN objects[k].gen ELSE 0

\* Unit 1 of request r takes its conditional step: the save of performWrite,
\* the delete of performDelete or the move of performRename.
ConditionalStep(r) ==
    /\ Len(req[r].units) = 1
    /\ req[r].units[1].pc \in {"w_save", "d_del", "rn_move"}
    /\ req'[r].units[1].pc # req[r].units[1].pc

\* The conditional step of r went through: the bucket changed at the key
\* and the unit holds the generation it was conditional on.
Won(r) ==
    LET u == req[r].units[1]
        k == UnitKey(r, 1)
    IN  /\ req'[r].units[1].used = u.used \cup {u.generation}
        /\ CASE u.pc = "w_save" -> k \in DOMAIN objects' /\ objects'[k].body = u.body
             [] u.pc = "d_del" -> k \notin DOMAIN objects'
             [] OTHER -> /\ k \notin DOMAIN objects'
                         /\ Key(req[r].addr, u.hist) \in DOMAIN objects'

\* The driver call threw DoesNotExist: a delete fails with it, the archival
\* rename of a /store has it swallowed and goes on to performWrite.
ThrewDoesNotExist(r) ==
    LET u == req[r].units[1]
        u2 == req'[r].units[1]
    IN  /\ u.pc \in {"d_del", "rn_move"}
        /\ IF u.op = "PUT" THEN u2.pc = "w_stat" /\ ~u2.renamed
           ELSE u2.pc = "fail" /\ u2.res = "DoesNotExist"

\* Of the conditional calls made on one key under one generation other than
\* 0, at most one went through.
OneWinnerPerGeneration ==
    \A r1, r2 \in Requests :
        (/\ r1 # r2 /\ Len(req[r1].units) = 1 /\ Len(req[r2].units) = 1
         /\ UnitKey(r1, 1) = UnitKey(r2, 1))
        => (req[r1].units[1].used \cap req[r2].units[1].used) \subseteq {0}

C14_IfNoneMatchExisting ==
    \A r \in Requests :
        (/\ req[r].kind = "store" /\ req[r].pc = "done" /\ req[r].found # ""
         /\ req[r].units[1].ifNoneMatchTag = "*" /\ req[r].units[1].ifMatchTag = "")
        => /\ req[r].resp = "PreconditionFailedError"
           /\ req[r].units[1].expectedEtag = req[r].found
           /\ ~req[r].units[1].renamed /\ req[r].units[1].logs = <<>>

\* Unit 1 of request r gets the answer of the stat of performWrite,
\* performDelete or performRename.
StatStep(r) ==
    /\ Len(req[r].units) = 1
    /\ req[r].units[1].pc \in {"w_stat", "d_stat", "rn_stat"}
    /\ req'[r].units[1].pc # req[r].units[1].pc

\* C15: in performWrite, performDelete and performRename, when ifMatchTag is
\* set, is not "*" and differs from the etag of the object the stat found
\* (from the null etag, for a write to a key without object), the call
\* fails with PreconditionFailedError carrying that etag and the bucket is
\* unchanged; when ifMatchTag is absent, "*" or equal to the etag, no etag
\* mismatch is reported: the call goes on to its conditional step, unless
\* it is a write with If-None-Match: * on an existing object.
C15_MatchTagChecked ==
    [][\A r \in Requests :
         LET u == req[r].units[1]
             u2 == req'[r].units[1]
             st == performStat(UnitKey(r, 1))
         IN  (StatStep(r) /\ (st.exists \/ u.pc = "w_stat")) =>
                IF u.ifMatchTag # "" /\ u.ifMatchTag # "*" /\ u.ifMatchTag # st.etag
                THEN /\ u2.pc = "fail" /\ u2.res = "PreconditionFailedError"
                     /\ u2.expectedEtag = st.etag
                     /\ objects' = objects
                ELSE IF u.pc = "w_stat" /\ u.ifNoneMatchTag = "*" /\ st.exists
                THEN u2.pc = "fail" /\ u2.expectedEtag = ""
                ELSE /\ u2.generation = st.generation
                     /\ u2.pc = CASE u.pc = "w_stat" -> "w_save"
                                  [] u.pc = "d_stat" -> "d_del"
                                  [] OTHER -> "rn_move"]_vars

\* A /delete with If-Match: 9 on the object with etag 1 was answered with
\* PreconditionFailedError carrying 1 and the object is still there; a
\* /store with If-Match: * was written.
C15_Reached ==
    \E r1, r2 \in Requests :
        /\ req[r1].kind = "delete" /\ req[r1].pc = "done"
        /\ req[r1].units[1].ifMatchTag = "9" /\ req[r1].found = "1"
        /\ req[r1].resp = "PreconditionFailedError"
        /\ req[r1].units[1].expectedEtag = "1"
        /\ req[r2].kind = "store" /\ req[r2].pc = "done"
        /\ req[r2].units[1].ifMatchTag = "*" /\ req[r2].resp = "OK"
        /\ Exists(Key("A", PX)) /\ objects[Key("A", PX)].body = req[r2].units[1].body

\* The headers of the request are ones its handler refuses.
RefusedHeaders(rq) ==
    LET u == rq.units[1]
    IN  \/ rq.kind = "store" /\ u.ifMatchTag # "" /\ u.ifNoneMatchTag # ""
        \/ rq.kind = "store" /\ u.ifNoneMatchTag # "" /\ u.ifNoneMatchTag # "*"
        \/ rq.kind = "delete" /\ u.ifNoneMatchTag # ""

\* C16: a /store with both If-Match and If-None-Match, or with an
\* If-None-Match other than "*", and a /delete with any If-None-Match, has
\* no driver rename, write or delete invoked, and is answered with
\* PreconditionFailedError.
C16_HeadersRefusedFirst ==
    \A r \in Requests :
        (req[r].kind \in {"store", "delete"} /\ RefusedHeaders(req[r]))
        => /\ req[r].units[1].invoked = {}
           /\ req[r].pc \in {"auth_read", "auth_resume", "done"}
           /\ req[r].pc = "done" => req[r].resp = "PreconditionFailedError"

\* A /store with both headers under an archival token and a /delete with
\* If-None-Match: * were both answered with PreconditionFailedError.
C16_Reached ==
    \E r1, r2 \in Requests :
        /\ req[r1].kind = "store" /\ req[r1].pc = "done" /\ req[r1].archival
        /\ req[r1].units[1].ifMatchTag = "1" /\ req[r1].units[1].ifNoneMatchTag = "*"
        /\ req[r1].resp = "PreconditionFailedError"
        /\ req[r2].kind = "delete" /\ req[r2].pc = "done"
        /\ req[r2].units[1].ifNoneMatchTag = "*"
        /\ req[r2].resp = "PreconditionFailedError"
        /\ objects = OneObject

Cap(u) ==
    IF u.clKind = "num" /\ u.cl > 0 /\ u.cl <= maxFileUploadSizeBytes
    THEN u.cl ELSE maxFileUploadSizeBytes

\* C18: the bytes of a /store body passed on to the driver never exceed
\* the cap; the chunk that takes the running total over the cap is not
\* passed on, the request stream is destroyed with it and the request is
\* answered with PayloadTooLargeError; a stream is destroyed for no other
\* reason.
C18_UploadCapped ==
    \A r \in Requests : \A i \in Units(r) :
        LET u == req[r].units[i]
        IN  /\ u.forwarded <= Cap(u)
            /\ u.forwarded <= u.monitored
            /\ u.monitored > Cap(u) <=> u.destroyed
            /\ u.destroyed => /\ u.pc = "fail" /\ u.res = "PayloadTooLargeError"
                               /\ req[r].pc = "done"
                               /\ req[r].resp = "PayloadTooLargeError"

\* A body of more bytes than its Content-Length of 1 said: the first byte
\* was passed on, the next chunk destroyed the stream, and the request was
\* answered with PayloadTooLargeError.
C18_Reached ==
    \E r \in Requests :
        /\ req[r].kind = "store" /\ req[r].pc = "done"
        /\ req[r].units[1].clKind = "num" /\ req[r].units[1].cl = 1
        /\ req[r].units[1].forwarded = 1 /\ req[r].units[1].monitored > 1
        /\ req[r].units[1].destroyed
        /\ req[r].resp = "PayloadTooLargeError"

\* What isBlacklisted is to return, as a table over the blacklist type and
\* the operation.
Blocked(type, performType) ==
    CASE type = 0 -> FALSE
      [] type = 1 -> TRUE
      [] type = 2 -> performType = "PUT_FILE"
      [] OTHER -> FALSE

\* C19: isBlacklisted is true exactly for type 1 and for type 2 with PUT;
\* it is false for type 0, for type 2 with DELETE, LIST and PERFORM, and for
\* any other type: so is what each handler got from it for the type of its
\* bucket, and what it returns on every type and operation.
C19_IsBlacklistedTable ==
    /\ \A r \in Requests :
          PastFloor(req[r]) =>
             req[r].isBkBltd = Blocked(getBlacklistType(req[r].addr), PerformType(req[r].kind))
    /\ \A performType \in {"PUT_FILE", "DELETE_FILE", "LIST_FILES", "PERFORM_FILES"} :
          isBlacklisted(blacklist["A"], performType) = Blocked(blacklist["A"], performType)

\* With type 2 a /store was found blacklisted and a /delete was not.
C19_Reached ==
    \E r1, r2 \in Requests :
        /\ blacklist["A"] = 2
        /\ req[r1].kind = "store" /\ req[r1].pc = "done" /\ req[r1].isBkBltd
        /\ req[r2].kind = "delete" /\ req[r2].pc = "done" /\ ~req[r2].isBkBltd

\* C20: while the type seen for the bucket is 1, /store, /delete,
\* /list-files and /perform-files are answered with ValidationError and no
\* driver list, write, delete or rename is invoked; while it is 2, a /store
\* is answered so and a PUT leaf fails so, without a driver call, but a
\* /delete, a listing and a DELETE leaf go through to the driver.
C20_BlacklistGate ==
    \A r \in Requests :
        LET rq == req[r]
            type == getBlacklistType(rq.addr)
        IN  PastFloor(rq) =>
              /\ type = 1 =>
                    /\ rq.pc = "done" /\ rq.resp = "ValidationError"
                    /\ \A i \in Units(r) : rq.units[i].invoked = {}
                    /\ rq.list.raw = {}
              /\ type = 2 =>
                    /\ rq.kind = "store" =>
                          /\ rq.pc = "done" /\ rq.resp = "ValidationError"
                          /\ rq.units[1].invoked = {}
                    /\ rq.kind = "delete" => rq.units[1].invoked = {"performDelete"}
                    /\ rq.kind = "list" => rq.pc = "list" \/ rq.resp = "OK"
                    /\ rq.kind = "perform" =>
                          \A i \in Units(r) :
                             LET u == rq.units[i]
                             IN  u.pc # "wait" =>
                                   IF u.op = "PUT"
                                   THEN /\ u.pc = "fail" /\ u.res = "ValidationError"
                                        /\ u.invoked = {}
                                   ELSE u.invoked = {"performDelete"}

\* With type 2 a /store was refused, and a /perform-files was answered
\* whose PUT leaf failed with ValidationError and whose DELETE leaf removed
\* the object.
C20_Reached ==
    /\ blacklist["A"] = 2
    /\ \E r1, r2 \in Requests :
          /\ req[r1].kind = "store" /\ req[r1].pc = "done"
          /\ req[r1].resp = "ValidationError"
          /\ req[r2].kind = "perform" /\ req[r2].pc = "done"
          /\ req[r2].units[1].op = "PUT" /\ req[r2].units[1].res = "ValidationError"
          /\ req[r2].units[2].op = "DELETE" /\ req[r2].units[2].pc = "ok"
          /\ ~Exists(Key("A", PX))

\* The elements of a sequence.
Range(f) == {f[x] : x \in DOMAIN f}

\* Leaf i comes before leaf j under a node with isSequential true: they are
\* in two children of a sequential root, or in one sequential child.
Sequenced(rq, i, j) ==
    /\ i < j
    /\ \/ rq.isSeq /\ rq.units[i].child # rq.units[j].child
       \/ rq.units[i].child = rq.units[j].child /\ rq.units[i].inner = "seq"

\* C21: under a node with isSequential true a child is attempted only when
\* every leaf of the children before it has returned with success; a leaf
\* that was not attempted has no driver call made for it, wrote no file log
\* and has no result in the response.
C21_SequentialShortCircuit ==
    \A r \in Requests : \A i, j \in Units(r) :
        LET rq == req[r]
        IN  /\ (Sequenced(rq, i, j) /\ rq.units[j].pc # "wait")
                  => rq.units[i].pc = "ok"
            /\ (rq.kind = "perform" /\ rq.units[j].pc = "wait")
                  => /\ rq.units[j].invoked = {} /\ rq.units[j].logs = <<>>
                     /\ j \notin Range(rq.results)

\* A sequential batch of a PUT in scope, a PUT out of scope and a PUT in
\* scope was answered with two results: the first written, the second
\* failed, the third never attempted.
C21_Reached ==
    /\ req[1].kind = "perform" /\ req[1].isSeq /\ req[1].resp = "OK"
    /\ req[1].tok = ScopedToken /\ Len(req[1].units) = 3
    /\ req[1].units[1].pc = "ok" /\ Exists(Key("A", PX))
    /\ objects[Key("A", PX)].body = req[1].units[1].body
    /\ req[1].units[2].pc = "fail" /\ req[1].units[2].res = "ValidationError"
    /\ req[1].units[3].pc = "wait"
    /\ req[1].results = <<1, 2>>

\* C22: a /perform-files request whose token verifies and whose address is
\* not blacklisted for PERFORM_FILES is answered with the array of results,
\* whatever its leaves did; then every leaf that was attempted has exactly
\* one result under its id, a success or a failure with its error, and
\* every leaf that was not attempted comes after a failed leaf under a
\* sequential node.
C22_LeafErrorsCaptured ==
    \A r \in Requests :
        LET rq == req[r]
        IN  (/\ rq.kind = "perform" /\ rq.pc = "done"
             /\ ~FailsVerification(rq) /\ ~rq.isBkBltd)
            => /\ rq.resp = "OK"
               /\ Len(rq.results) = Cardinality(Range(rq.results))
               /\ \A i \in Units(r) :
                     LET u == rq.units[i]
                     IN  /\ u.pc \in {"ok", "fail", "wait"}
                         /\ u.pc # "wait" <=> i \in Range(rq.results)
                         /\ u.pc = "fail" => u.res # ""
                         /\ u.pc = "wait" =>
                               \E j \in Units(r) : /\ Sequenced(rq, j, i)
                                                    /\ rq.units[j].pc = "fail"

\* A parallel batch was answered with five results: content that is neither
\* string nor object, content over the maximum, an unknown type, a delete
\* of a missing file, and a PUT that was written.
C22_Reached ==
    /\ req[1].kind = "perform" /\ ~req[1].isSeq /\ req[1].resp = "OK"
    /\ Len(req[1].units) = 5
    /\ req[1].units[1].res = "InvalidInputError"
    /\ req[1].units[2].res = "PayloadTooLargeError"
    /\ req[1].units[3].op = "COPY" /\ req[1].units[3].res = "InvalidInputError"
    /\ req[1].units[4].res = "DoesNotExist"
    /\ req[1].units[5].pc = "ok"
    /\ objects[Key("A", PX)].body = req[1].units[5].body
    /\ req[1].results = <<1, 2, 3, 4, 5>>

\* The file logs of the leaves that returned with success, from leaf i on,
\* in the order of the request body.
RECURSIVE LogsOfLeaves(_, _)
LogsOfLeaves(units, i) ==
    IF i > Len(units) THEN <<>>
    ELSE (IF units[i].pc = "ok" THEN units[i].logs ELSE <<>>)
            \o LogsOfLeaves(units, i + 1)

\* C23: a /perform-files request calls addTaskToQueue at most once, and not
\* before it has collected its results; when it is answered with them, it
\* has called it once, no leaf is still in the driver, and the call was
\* given the file logs of all the leaves' results, in the order of the
\* leaves; the task queue holds nothing else.
C23_OneEnqueuePerBatch ==
    \A r \in Requests :
        LET rq == req[r]
        IN  rq.kind = "perform" =>
              /\ Len(rq.tasks) <= 1
              /\ rq.pc # "done" => rq.tasks = <<>>
              /\ (rq.pc = "done" /\ rq.resp = "OK") =>
                    /\ Len(rq.tasks) = 1
                    /\ rq.tasks[1] = LogsOfLeaves(rq.units, 1)
                    /\ \A i \in Units(r) : ~InDriver(rq.units[i])
                    /\ queue = IF rq.created /\ rq.tasks[1] # <<>> THEN rq.tasks
                               ELSE <<>>
              /\ rq.resp # "OK" => queue = <<>>

\* A sequential batch of a parallel node (two PUTs), a sequential node (a
\* DELETE and a PUT) and a DELETE that found nothing was answered, and the
\* one task in the queue holds the four file logs of the four successes.
C23_Reached ==
    /\ req[1].kind = "perform" /\ req[1].isSeq /\ req[1].resp = "OK"
    /\ req[1].results = <<1, 2, 3, 4, 5>>
    /\ req[1].units[5].res = "DoesNotExist"
    /\ Len(queue) = 1 /\ Len(queue[1]) = 4
    /\ queue[1][1].path = PY /\ queue[1][1].action = "CREATE_FILE"
    /\ queue[1][3].path = PY /\ queue[1][3].action = "DELETE_FILE"
    /\ queue[1][4].path = PX /\ queue[1][4].action = "UPDATE_FILE"

\* The window of leaf i among the values of a parallel node: that of its
\* child under the root, that of the leaf under its child.
RootWindow(rq, i) == (rq.units[i].child - 1) \div nItems

ChildWindow(rq, i) ==
    Cardinality({j \in LeavesOf(rq, rq.units[i].child) : j < i}) \div nItems

\* C24: of the children of a node with isSequential false at most nItems
\* (10) are in flight at a time, and a child of a later window is started
\* only when no child of an earlier window is still in flight: under a
\* parallel root the calls of the earlier children have returned, under a
\* parallel child the earlier leaves have settled.
C24_WindowsOfTen ==
    \A r \in Requests :
        LET rq == req[r]
            flying == {i \in Units(r) : InDriver(rq.units[i])}
        IN  rq.kind = "perform" =>
              /\ ~rq.isSeq => Cardinality({rq.units[i].child : i \in flying}) <= nItems
              /\ \A c \in DOMAIN rq.part :
                    (\A i \in LeavesOf(rq, c) : rq.units[i].inner = "par")
                    => Cardinality(flying \cap LeavesOf(rq, c)) <= nItems
              /\ \A i, j \in Units(r) :
                    /\ (/\ ~rq.isSeq /\ RootWindow(rq, i) < RootWindow(rq, j)
                         /\ rq.units[j].pc # "wait")
                       => /\ ~InDriver(rq.units[i])
                          /\ rq.units[i].inner # "seq" => Settled(rq.units[i])
                    /\ (/\ rq.units[i].child = rq.units[j].child
                         /\ rq.units[i].inner = "par"
                         /\ ChildWindow(rq, i) < ChildWindow(rq, j)
                         /\ rq.units[j].pc # "wait")
                       => Settled(rq.units[i])

\* Of the eleven leaves of a parallel root ten are in the driver and the
\* eleventh has not been started.
C24_Reached ==
    /\ req[1].kind = "perform" /\ ~req[1].isSeq
    /\ Len(req[1].units) = nItems + 1
    /\ \A i \in 1..(nItems + 1) : req[1].units[i].child = i
    /\ \A i \in 1..nItems : InDriver(req[1].units[i])
    /\ req[1].units[nItems + 1].pc = "wait"

\* The sequence holds indices in increasing order.
Increasing(f) == \A a, b \in DOMAIN f : a < b => f[a] < f[b]

\* C25: the results of a batch are in the order of the leaves in the
\* request body, under sequential and under parallel nodes, whatever the
\* order in which concurrent leaves completed; so are the results each
\* child of the root returned; and the array the request is answered with
\* holds the results of every leaf that was attempted.
C25_ResultsInInputOrder ==
    \A r \in Requests :
        LET rq == req[r]
        IN  rq.kind = "perform" =>
              /\ Increasing(rq.results)
              /\ \A c \in DOMAIN rq.part : Increasing(rq.part[c])
              /\ (rq.pc = "done" /\ rq.resp = "OK") =>
                    Range(rq.results) = {i \in Units(r) : rq.units[i].pc # "wait"}

\* Under a parallel root the PUT of the second child was saved before the
\* PUT of the first child on the same path took its stat, which saw the
\* generation that save made; the results are in the order of the body.
C25_Reached ==
    /\ req[1].kind = "perform" /\ ~req[1].isSeq /\ req[1].resp = "OK"
    /\ Len(req[1].units) = 5
    /\ req[1].units[2].child = 1 /\ req[1].units[4].child = 2
    /\ req[1].units[2].pc = "ok" /\ req[1].units[4].pc = "ok"
    /\ req[1].units[4].generation < 10 /\ req[1].units[2].generation >= 10
    /\ req[1].results = <<1, 2, 3, 4, 5>>

\* The file logs the request has passed to addTaskToQueue.
Enqueued(rq) == UNION {Range(rq.tasks[t]) : t \in DOMAIN rq.tasks}

\* C26: when a request has been answered, the file logs of every mutation
\* it applied to the bucket (a write, a delete, a rename) have been passed
\* to addTaskToQueue by it, also when the request or the leaf failed after
\* the mutation.
C26_EveryMutationEnqueued ==
    \A r \in Requests :
        req[r].pc = "done" =>
           \A i \in Units(r) : Range(req[r].units[i].logs) \subseteq Enqueued(req[r])

\* C30: a /store with If-Match equal to the etag of the object that was at
\* the path when the request arrived, served while no other request is, is
\* answered with success and leaves its body at the path, under tokens with
\* and without archival scopes.
C30_IfMatchCurrentSucceeds ==
    \A r \in Requests :
        (/\ req[r].kind = "store" /\ req[r].pc = "done" /\ req[r].found # ""
         /\ req[r].units[1].ifMatchTag = req[r].found
         /\ req[r].units[1].ifNoneMatchTag = "")
        => /\ req[r].resp = "OK"
           /\ req[r].units[1].pc = "ok"
           /\ hist.stored # {} /\ req[r].units[1].body \in hist.stored

\* The request is answered from its call of addTaskToQueue.
EnqueueStep(r) == req[r].pc = "enqueue" /\ req'[r].pc = "done"

\* The task of the request's file logs could not be created.
EnqueueFailed(rq) == rq.pc = "done" /\ rq.tasks # <<>> /\ ~rq.created

\* C27: addTaskToQueue returns normally whether the task is created or
\* not: the request is answered with its success result, and its units,
\* its results and the bucket are as they were before the call; after a
\* failed creation the queue lacks the task, the answer is the success all
\* the same, and what a /store wrote is at the path, what a /delete
\* removed is gone.
C27_EnqueueNeverRaises ==
    /\ [][\A r \in Requests :
            EnqueueStep(r) =>
               /\ req'[r].resp = "OK"
               /\ req'[r].units = req[r].units /\ req'[r].results = req[r].results
               /\ objects' = objects]_vars
    /\ [](\A r \in Requests :
            EnqueueFailed(req[r]) =>
               /\ req[r].resp = "OK" /\ queue = <<>>
               /\ req[r].kind = "store" => objects[Endpoint(req[r])].body = req[r].units[1].body
               /\ req[r].kind = "delete" => ~Exists(Endpoint(req[r])))

\* The task of a /store could not be created: the request was answered
\* with success, its body is at the path and the queue is empty.
C27_Reached ==
    /\ req[1].kind = "store" /\ EnqueueFailed(req[1]) /\ req[1].resp = "OK"
    /\ req[1].tasks = <<req[1].units[1].logs>> /\ req[1].units[1].logs # <<>>
    /\ objects[Key("A", PX)].body = req[1].units[1].body
    /\ queue = <<>>

\* C28: a /revoke-all is never refused for the age of its token: it is
\* refused, with ValidationError, exactly when the token fails
\* verification by its own fields, whatever floor is stored or cached for
\* the address; a verified token whose iat is below the floor in force gets
\* as far as a /revoke-all gets, and once it is answered with success the
\* stored floor is at least the timestamp asked for.
C28_BumpIgnoresFloor ==
    \A r \in Requests :
        LET rq == req[r]
        IN  rq.kind = "revoke" =>
              /\ rq.resp # "AuthTokenTimestampValidationError"
              /\ FailsVerification(rq) <=> (rq.pc = "done" /\ rq.resp = "ValidationError")
              /\ (rq.pc = "done" /\ ~FailsVerification(rq))
                    => rq.resp \in {"OK", "ServerError"}
              /\ (rq.pc = "done" /\ rq.resp = "OK")
                    => revocation[rq.addr].timestamp >= rq.ts

\* Under a floor of 1 a token issued at 0 was refused at /store with the
\* timestamp error, and the same token then raised the floor to 2 with
\* /revoke-all.
C28_Reached ==
    \E r1, r2 \in Requests :
        /\ r1 < r2
        /\ req[r1].kind = "store" /\ req[r1].tok = IssuedAt(0)
        /\ req[r1].floor = 1 /\ TimestampError(req[r1])
        /\ req[r2].kind = "revoke" /\ req[r2].tok = IssuedAt(0)
        /\ req[r2].ts = MaxTs /\ req[r2].pc = "done" /\ req[r2].resp = "OK"
        /\ atCache["A"] = MaxTs /\ revocation["A"].timestamp = MaxTs

\* Leaf i of request r is a DELETE that ignores DoesNotExist.
IgnoringDelete(r, i) ==
    /\ req[r].kind = "perform" /\ i \in Units(r)
    /\ req[r].units[i].op = "DELETE" /\ req[r].units[i].doIgnoreDoesNotExistError

\* C29: when a DELETE leaf with doIgnoreDoesNotExistError has returned
\* with success and the same leaf is executed again by the next request,
\* under the same token, it returns with success again and changes
\* nothing in the bucket.
C29_RepeatedDeleteSucceeds ==
    \A r1, r2 \in Requests : \A i1 \in Units(r1), i2 \in Units(r2) :
        (/\ r2 = r1 + 1 /\ IgnoringDelete(r1, i1) /\ IgnoringDelete(r2, i2)
         /\ UnitKey(r1, i1) = UnitKey(r2, i2) /\ req[r1].tok = req[r2].tok
         /\ req[r1].units[i1].pc = "ok"
         /\ req[r2].pc = "done" /\ req[r2].units[i2].pc # "wait")
        => /\ req[r2].units[i2].pc = "ok"
           /\ req[r2].units[i2].logs = <<>>

\* C31: a listing that was answered holds the null entry exactly when the
\* token is archival-restricted, the page the driver returned held at least
\* one entry, the filter removed every one of them and the continuation token
\* is not null; the entries are then the null entry alone; and the page token
\* of the answer is always the one the driver returned.
C31_NullEntryOnlyForFilteredPage ==
    \A r \in Requests :
        (req[r].kind = "list" /\ req[r].pc = "done" /\ req[r].resp = "OK")
        => LET l == req[r].list
               historical == {e \in l.raw : isHistoricalFile(e.name)}
           IN  /\ l.nullEntry
                   <=> /\ isArchivalRestricted(req[r].tok.scopes)
                       /\ l.raw # {}
                       /\ historical = l.raw
                       /\ l.driverPage # 0
               /\ l.nullEntry => l.entries = {}
               /\ l.page = l.driverPage

\* An archival listing whose page held only historical files and has a
\* continuation carries the null entry, and a plain listing whose page was
\* empty with a continuation carries none.
C31_Reached ==
    /\ \E r \in Requests :
          /\ req[r].kind = "list" /\ req[r].pc = "done" /\ req[r].list.nullEntry
          /\ req[r].list.raw # {} /\ req[r].list.page # 0
    /\ \E r \in Requests :
          /\ req[r].kind = "list" /\ req[r].pc = "done" /\ req[r].resp = "OK"
          /\ ~isArchivalRestricted(req[r].tok.scopes)
          /\ req[r].list.raw = {} /\ req[r].list.page # 0
          /\ ~req[r].list.nullEntry

\* The integer a pageSize of the request body stands for, when it has one.
Asked(l) == parseInt(l.pageSize)

Owned == {Endpoint(req[r]) : r \in {q \in Requests : req[q].route = "mutex"
                                                     /\ req[q].pc # "done"}}

\* Request r arrives in this step.
Arrives(r) == req[r].kind = "none" /\ req'[r].kind # "none"

\* C33: tryAcquire on an opened id returns false, starts no work and leaves
\* the set as it was; on another id it admits the work, and the set then
\* holds the id exactly until the work settles, by success, by an error or
\* by an aborted upload; work that throws before it returns leaves the set
\* as it was; so when every piece of work has settled the set is empty, and
\* a request is refused only for an id that is opened.
C33_MutexScope ==
    /\ [][\A r \in Requests :
            (Arrives(r) /\ req'[r].route \in {"mutex", "refused"})
            => IF Endpoint(req'[r]) \in opened
               THEN /\ req'[r].pc = "done"
                    /\ req'[r].resp \in {"ConflictError", "false"}
                    /\ req'[r].units[1].invoked = {}
                    /\ opened' = opened
                    /\ objects' = objects
               ELSE /\ req'[r].route = "mutex" => req'[r].resp # "ConflictError"
                    /\ req'[r].route = "refused"
                        => req'[r].resp = "thrown" /\ opened' = opened]_vars
    /\ [](opened = Owned)
    /\ [](Quiet => opened = {})

\* An upload on the guarded route was aborted for its size, a second request
\* for the endpoint had been refused meanwhile, and a third was then admitted
\* and served; nothing is opened any more.
C33_Reached ==
    /\ req[1].route = "mutex" /\ req[1].resp = "PayloadTooLargeError"
    /\ req[2].route = "refused" /\ req[2].resp = "ConflictError"
    /\ req[3].route = "mutex" /\ req[3].resp = "OK" /\ req[3].pc = "done"
    /\ Endpoint(req[1]) = Endpoint(req[2]) /\ Endpoint(req[2]) = Endpoint(req[3])
    /\ opened = {}

\* C34: the timestamp the revocation cache holds for an address is never
\* lower than one it held for the address before, whatever calls of
\* getAuthTimestamp and setAuthTimestamp interleave and whatever entries
\* are dropped in between (hist.maxCached is the largest value held so far).
C34_CachedTimestampMonotone ==
    \A a \in Addresses :
        atCache[a] # NoEntry => atCache[a] >= hist.maxCached[a]

\* The transaction of request r commits in this step.
Commits(r) == req[r].pc = "set_commit" /\ req'[r].pc = "set_resume"

\* C35: when a call of performWriteAuthTimestamp with timestamp t commits
\* on an entity holding old, the entity then holds the larger of old and t,
\* an entity that was there keeps its createDate, and with t <= old the
\* entity is not written at all; and whatever calls run side by side, the
\* stored timestamp of an address never gets smaller and its entity never
\* goes away.
C35_MaxWins ==
    /\ [][\A r \in Requests :
            Commits(r) =>
              LET old == revocation[req[r].addr]
                  new == revocation'[req[r].addr]
                  t == req[r].ts
              IN  /\ new.timestamp = Max(old.timestamp, t)
                  /\ old.exists => new.createDate = old.createDate
                  /\ (old.exists /\ t <= old.timestamp) => new = old
                  /\ new # old => new.updateDate = Date(r)]_vars
    /\ [][\A a \in Addresses :
            /\ revocation'[a].timestamp >= revocation[a].timestamp
            /\ revocation[a].exists => revocation'[a].exists]_vars

\* The entity of A was created by one call and raised to the largest
\* timestamp by a later one, and a call with a smaller timestamp whose
\* transaction got that entity has committed without writing.
C35_Reached ==
    /\ revocation["A"].timestamp = MaxTs /\ revocation["A"].version = 2
    /\ revocation["A"].createDate < revocation["A"].updateDate
    /\ \E r \in Requests :
          /\ req[r].kind = "revoke" /\ req[r].ts < MaxTs
          /\ req[r].pc \in {"set_resume", "done"} /\ req[r].resp # "ServerError"
          /\ req[r].oEy = revocation["A"]

\* Request r is inside performWriteAuthTimestamp.
InTransaction(rq) == rq.kind = "revoke" /\ rq.pc \in {"set_write", "set_commit"}

\* The call of request r ends with the error of its transaction in this step.
Surfaces(r) == InTransaction(req[r]) /\ req'[r].resp = "ServerError"

ScopeDecided(rq, i) ==
    IF rq.kind = "perform" THEN rq.units[i].pc # "wait"
    ELSE rq.kind \in {"store", "delete"} /\ PastFloor(rq)

\* Unit i was turned away with a validation error before any driver call.
ScopeRefused(rq, i) ==
    /\ rq.units[i].invoked = {}
    /\ IF rq.kind = "perform"
       THEN rq.units[i].pc = "fail" /\ rq.units[i].res = "ValidationError"
       ELSE rq.pc = "done" /\ rq.resp = "ValidationError"

\* C37: under a verified token a mutation of path p is turned away with a
\* validation error exactly when p is outside the token's scopes: the token
\* has write-archival entries and p neither equals an archival path nor
\* starts with an archival prefix, or it is a PUT, the token has write
\* entries and p matches none of them, or it is a DELETE and the same holds
\* of the delete entries; a token without entries of a kind restricts
\* nothing of that kind.
C37_ScopeAuthorization ==
    \A r \in Requests : \A i \in Units(r) :
        ScopeDecided(req[r], i)
        => (ScopeRefused(req[r], i) <=> OutOfScope(req[r], req[r].units[i]))

\* The bucket as the only request of the run found it.
Before(rq) == IF rq.found = "" THEN NoObjects ELSE OneObject

\* The /store was answered with an error.
StoreFailed(rq) == rq.kind = "store" /\ rq.pc = "done" /\ rq.resp # "OK"

\* C38: a /store that ends in an error (an overlong content-type, a body
\* longer than announced, a failed precondition, a failed save) leaves the
\* bucket as it found it: the object that was at the path is still there,
\* under an archival-restricted token as under any other.
C38_FailedStoreLeavesBucket ==
    \A r \in Requests : StoreFailed(req[r]) => objects = Before(req[r])

\* What the check of the token answers while no floor is set.
WithoutFloor(in) == validateAuthorizationHeader(in.tok, in.address, 0, config)

RejectedForTimestamp ==
    authOut.err = "AuthTokenTimestampValidationError" /\ authOut.floor = authIn.floor

\* C39: under a floor above 0, of the tokens that are valid when no floor is
\* set, one whose outer payload has no iat is accepted as before (its
\* association token, if any, being issued at or after the floor), while one
\* whose outer iat is not a number, and one whose association token has no
\* iat or one that is not a number, is rejected with
\* AuthTokenTimestampValidationError carrying the floor.
C39_MissingIatAsymmetry ==
    (Called /\ authIn.floor > 0 /\ WithoutFloor(authIn).err = "")
    => LET tok == authIn.tok
       IN  /\ (/\ tok.iatKind = "absent"
               /\ tok.hasAsso => (isNumber(tok.asso.iatKind)
                                  /\ tok.asso.iat >= authIn.floor))
              => authOut = WithoutFloor(authIn)
           /\ tok.iatKind = "nan" => RejectedForTimestamp
           /\ (tok.hasAsso /\ ~isNumber(tok.asso.iatKind)) => RejectedForTimestamp

\* Under a floor above 0 a token without iat, whose association token was
\* issued at the floor or after it, was accepted.
C39_Reached ==
    /\ Called /\ authIn.floor > 0
    /\ authIn.tok.iatKind = "absent" /\ authIn.tok.hasAsso
    /\ authOut.err = "" /\ authOut.assoIss # ""

\* ---- C40 ----

\* The sum of sizeChange over a sequence of file logs.
RECURSIVE SumSizeChange(_)
SumSizeChange(logs) ==
    IF logs = <<>> THEN 0
    ELSE Head(logs).sizeChange + SumSizeChange(Tail(logs))

\* The same over the file logs the driver returned to a sequence of units.
RECURSIVE UnitsSizeChange(_)
UnitsSizeChange(units) ==
    IF units = <<>> THEN 0
    ELSE SumSizeChange(Head(units).logs) + UnitsSizeChange(Tail(units))

\* The same over the requests 1..n.
RECURSIVE ReturnedSizeChange(_)
ReturnedSizeChange(n) ==
    IF n = 0 THEN 0
    ELSE UnitsSizeChange(req[n].units) + ReturnedSizeChange(n - 1)

\* The total contentLength of the objects stored under a set of keys.
RECURSIVE StoredBytes(_)
StoredBytes(keys) ==
    IF keys = {} THEN 0
    ELSE LET k == CHOOSE x \in keys : TRUE
         IN  contentLength(objects[k].body) + StoredBytes(keys \ {k})

\* C40: starting from an empty bucket, the sum of sizeChange over all file
\* logs that performWrite, performDelete and performRename have returned
\* equals the total contentLength of the objects now stored.
C40_SizeAccounting == ReturnedSizeChange(MaxReq) = StoredBytes(DOMAIN objects)

\* Three requests were served: one overwrote an object with a shorter body,
\* one renamed an object to its historical name, and objects are stored.
C40_Reached ==
    /\ \A r \in Requests : req[r].pc = "done"
    /\ \E r \in Requests :
          \E j \in 1..Len(req[r].units[1].logs) :
              /\ req[r].units[1].logs[j].action = "UPDATE_FILE"
              /\ req[r].units[1].logs[j].sizeChange < 0
    /\ \E r \in Requests : req[r].units[1].renamed
    /\ DOMAIN objects # {}
    /\ StoredBytes(DOMAIN objects) > 0

====
